---- MODULE Spec2Model ----
(***************************************************************************)
(* Monitor registry of Auto-Brightness (src/monitor_control.py):           *)
(* HybridMonitorControl merges the monitor lists of three backend drivers  *)
(* (KDE ScreenBrightness, ddcutil, raw I2C) and dispatches every get/set   *)
(* to one of them.                                                         *)
(*                                                                         *)
(* Python strings that the code inspects (labels, model strings) are       *)
(* sequences of one-character strings; identifiers and bus names, which    *)
(* the code only compares and formats, are TLA+ strings.  None is the      *)
(* string "None" (dict.get of a missing key and a stored None agree).      *)
(***************************************************************************)
EXTENDS Integers, Sequences, FiniteSets, TLC

\* ------------------------------------------------------------ bounds
MaxKde == 2     \* desktop-service display indices are 1..MaxKde
MaxDdc == 2     \* at most MaxDdc "Display N" blocks in the ddcutil listing
MaxBus == 2     \* I2C buses are /dev/i2c-1 .. /dev/i2c-MaxBus

KdeIndices  == 1..MaxKde
DisplayNums == 1..MaxDdc
Buses       == 1..MaxBus

\* ------------------------------------------------------------ strings
None == "None"

\* str(n) for the small non-negative integers of the model
Str(n) == IF n < 10 THEN <<"0","1","2","3","4","5","6","7","8","9">>[n + 1]
          ELSE <<"0","1","2","3","4","5","6","7","8","9">>[(n \div 10) + 1]
               \o <<"0","1","2","3","4","5","6","7","8","9">>[(n % 10) + 1]

\* f"kde_{idx}"
KdeId(idx) == "kde_" \o Str(idx)

\* str.lower() on one character
LowerChar(c) ==
  CASE c = "A" -> "a" [] c = "B" -> "b" [] c = "C" -> "c" [] c = "D" -> "d"
    [] c = "E" -> "e" [] c = "H" -> "h" [] c = "I" -> "i" [] c = "L" -> "l"
    [] c = "P" -> "p" [] c = "Q" -> "q" [] c = "U" -> "u" [] c = "X" -> "x"
    [] OTHER -> c

\* str.lower()
Lower(s) == [i \in 1..Len(s) |-> LowerChar(s[i])]

\* s.split(':'): the maximal ':'-free pieces, empty pieces included
RECURSIVE SplitFrom(_, _, _)
SplitFrom(s, i, cur) ==
  IF i > Len(s) THEN <<cur>>
  ELSE IF s[i] = ":" THEN <<cur>> \o SplitFrom(s, i + 1, <<>>)
  ELSE SplitFrom(s, i + 1, Append(cur, s[i]))

Split(s) == SplitFrom(s, 1, <<>>)

\* part in s  (substring test)
Contains(s, part) ==
  \E k \in 0..(Len(s) - Len(part)) : SubSeq(s, k + 1, k + Len(part)) = part

\* the labels the desktop service may report and the model strings ddcutil
\* may print ("MFG:Product:Serial")
LabelDell  == <<"D","E","L","L"," ","U","2","7","2","0","Q">>
LabelPanel == <<"B","u","i","l","t","-","i","n">>
ModelDell  == <<"D","E","L",":","U","2","7","2","0","Q",":","A","B","C","1","2","3">>
ModelOther == <<"D","E","L",":","P","2","4","1","9","H",":","X","1">>

Labels == {LabelDell, LabelPanel}
Models == {ModelDell, ModelOther}

\* ------------------------------------------------------------ capabilities
\* A capabilities dict: nonempty is its truth value ({} is falsy), features
\* the keys of its 'features' map.
EmptyCaps == [nonempty |-> FALSE, features |-> {}]
StubCaps  == [nonempty |-> TRUE,  features |-> {"10"}]
FullCaps  == [nonempty |-> TRUE,  features |-> {"10", "12", "60"}]

\* what `ddcutil --bus B capabilities` can produce for a monitor
DdcCapsChoices == {EmptyCaps, FullCaps}

\* ------------------------------------------------------------ state
VARIABLES
  kdeDisplays,  \* desktop service: display index -> Label, for the displays it exposes
  ddcDisplays,  \* ddcutil listing: sequence of records in output order
  rawBuses,     \* I2C bus -> "ok" (NVIDIA adapter answering DDC and VCP-Get 0x10) or "none"
  kdeUp,        \* KDEScreenBrightness.is_available() would answer true
  ddcTool,      \* "ok", "fail" (non-zero exit) or "missing" (ddcutil not installed)
  monitors,     \* HybridMonitorControl.monitors : id -> record
  lastPass,     \* "none", "returned" or "raised": how the last detect_monitors call ended
  prevPass,     \* the same for the detect_monitors call before the last
  kdeSeen,      \* the KDE records the last detect_monitors call obtained
  ddcSeen,      \* the ddcutil records the last detect_monitors call obtained
  rawSeen,      \* the raw-I2C records the last detect_monitors call obtained
  lastOp,       \* the last dispatch operation: [op, id, code]
  calls,        \* the backend driver calls that operation made, in order
  ret           \* what that operation returned

VARIABLES
  kdeReply,     \* desktop service: display index -> how its property queries answer
  kdeBus,       \* display index -> the I2C bus that display hangs on (None: not on a DDC bus)
  drvCall,      \* the backend driver method called last, with the environment's reply
  drvPhase,     \* "idle", "done" (it returned or raised) or "blocked" (it waits for ever)
  drvRet,       \* what that method returned
  kdeMax,       \* max_brightness of the KDE driver's record of one display
  kdeNative,    \* the Brightness the desktop service stores for that display
  kdePercent,   \* brightness_percent of the last KDE set_brightness, {} before it
  kdeRead,      \* result of the last KDE get_brightness, {} before it
  inflight,     \* thread -> the I2C bus it has a DDC/CI exchange in flight on, or None
  frameFeature, \* feature argument of _vcp_get / _vcp_set
  frameValue,   \* value argument of _vcp_set
  frame         \* the bytes of the last request written to the bus

VARIABLES
  capsLines,       \* result.stdout.split('\n') of `ddcutil --bus B capabilities`
  capsPos,         \* index of the line the parsing loop reads next
  current_feature, \* current_feature of the loop: {} for None, else {code}
  parsed,          \* the capabilities dict being filled
  attributed       \* <<line index, feature code>> of every value line stored

VARIABLES
  min_brightness,  \* config["min_brightness"], a float
  max_brightness,  \* config["max_brightness"], a float
  use_scaling,     \* config.get("use_elevation_scaling", True)
  elevation,       \* {e}: the solar elevation of the last calculate_brightness, {} before it
  calculated       \* {b}: the brightness that call returned

VARIABLES
  hybrid_control,  \* AutoBrightnessService.hybrid_control is not None
  display_ids,        \* the ids the last get_displays returned
  last_brightness, \* AutoBrightnessService._last_brightness : id -> percent
  panelSet,        \* label of a desktop-service display -> {percent} it was last set to
  busSet,          \* I2C bus -> {percent} the monitor on it was last set to
  autoOp           \* the service method that ran last: its arguments and its tool runs

VARIABLES
  config_file,     \* what load_config would read now: the keys run looks at
  config,          \* AutoBrightnessService.config, the last load
  pc,              \* where run is: "init", "disabled", "loop", "poll" or "stopped"
  polls,           \* passes of the fullscreen polling loop still to make
  located,         \* run's lat and lon are both truthy
  run_brightness,  \* run's brightness, {} before the first calculate_brightness
  iteration_count, \* run's iteration_count, modulo 10
  outcome          \* how the last pass through run's loop ended

hw   == <<kdeDisplays, ddcDisplays, rawBuses, kdeReply, kdeBus>>
env  == <<kdeUp, ddcTool>>
pass == <<monitors, lastPass, prevPass, kdeSeen, ddcSeen, rawSeen>>
disp == <<lastOp, calls, ret>>
drv  == <<drvCall, drvPhase, drvRet>>
svc  == <<kdeMax, kdeNative, kdePercent, kdeRead>>
wire == <<frameFeature, frameValue, frame>>
parse == <<capsLines, capsPos, current_feature, parsed, attributed>>

\* the state of src/monitor_control.py outside the capabilities parser
reg == <<hw, env, pass, disp, drv, svc, inflight, wire>>

\* the state added to it
curve == <<min_brightness, max_brightness, use_scaling, elevation, calculated>>
auto == <<hybrid_control, display_ids, last_brightness, panelSet, busSet, autoOp>>
loop == <<config_file, config, pc, polls, located, run_brightness, iteration_count,
          outcome>>
ext == <<parse, curve, auto, loop>>
vars == <<kdeDisplays, ddcDisplays, rawBuses, kdeUp, ddcTool,
          monitors, lastPass, prevPass, kdeSeen, ddcSeen, rawSeen, lastOp, calls, ret,
          kdeReply, kdeBus, drvCall, drvPhase, drvRet, kdeMax, kdeNative,
          kdePercent, kdeRead, inflight, frameFeature, frameValue, frame, ext>>

NoMonitors == [id \in {} |-> None]

\* a driver call's feature_code and value arguments when it has none; a
\* value argument v is {v}
NoCode  == ""
NoValue == {}

\* no dispatch operation has a result outstanding
Idle  == [op |-> "none", id |-> "", code |-> NoCode, value |-> NoValue]
NoRet == [tag |-> "none", val |-> 0, caps |-> EmptyCaps]

\* 'Unknown'
Unknown == <<"U", "n", "k", "n", "o", "w", "n">>

\* the dict get_monitor_capabilities starts from
NoCaps == [model |-> Unknown, mccs_version |-> Unknown,
           features |-> [code \in {} |-> {}]]

\* no capabilities text is being parsed
ParseInit ==
  /\ capsLines = <<>> /\ capsPos = 1 /\ current_feature = {}
  /\ parsed = NoCaps /\ attributed = {}

\* no brightness has been computed; the float 0 stands in for the limits
CurveInit ==
  /\ min_brightness = [neg |-> FALSE, man |-> <<>>, exp |-> 0]
  /\ max_brightness = [neg |-> FALSE, man |-> <<>>, exp |-> 0]
  /\ use_scaling = TRUE /\ elevation = {} /\ calculated = {}

\* no service method has run
NoAutoOp == [op |-> "none", display |-> "", percent |-> {}, skipped |-> FALSE,
             tool |-> <<>>]

\* the service as constructed, before its first get_displays
AutoInit ==
  /\ hybrid_control = TRUE
  /\ display_ids = {}
  /\ last_brightness = [id \in {} |-> 0]
  /\ panelSet = [l \in Labels |-> {}]
  /\ busSet = [b \in {Str(c) : c \in Buses} |-> {}]
  /\ autoOp = NoAutoOp

\* load_config's defaults; run has not been called
LoopInit ==
  /\ config_file = [auto_brightness_enabled |-> TRUE,
                    fullscreen_brightness_enabled |-> FALSE, latitude |-> FALSE]
  /\ config = config_file
  /\ pc = "init" /\ polls = 0 /\ located = FALSE
  /\ run_brightness = {} /\ iteration_count = 0 /\ outcome = "none"

ExtInit == ParseInit /\ CurveInit /\ AutoInit /\ LoopInit

\* Python truthiness of an i2c_bus value
Truthy(bus) == bus # None /\ bus # ""

\* ------------------------------------------------------------ drivers' detection
\* how the property queries of one display answer:
\*   "ok"      Label, MaxBrightness and Brightness answer, the last two in digits
\*   "nolabel" the Label query fails (_get_property gives None)
\*   "nomax"   the MaxBrightness query fails or prints nothing
\*   "nan"     MaxBrightness or Brightness prints text that is not a number
KdeReplies == {"ok", "nolabel", "nomax", "nan"}

\* int(max_brightness) / int(brightness) raises ValueError; nothing in
\* KDEScreenBrightness.detect_monitors catches it
KdeDetectRaises(displays, replies) ==
  \E i \in DOMAIN displays : replies[i] = "nan"

\* KDEScreenBrightness.detect_monitors: one record per display whose Label
\* query answers, keyed kde_<idx>, brightness-only capabilities, no i2c_bus key
KdeDetect(displays, replies) ==
  [id \in {KdeId(i) : i \in {k \in DOMAIN displays : replies[k] # "nolabel"}} |->
     LET i == CHOOSE j \in DOMAIN displays : KdeId(j) = id
     IN [backend |-> "kde", i2c_bus |-> None, model |-> displays[i],
         capabilities |-> StubCaps]]

\* DDCIMonitorControl.detect_monitors: the parsed "Display N" blocks in output
\* order; no backend key yet.  A non-zero exit gives {}.
DdcDetect(listing, tool) == IF tool = "ok" THEN listing ELSE <<>>

\* what the raw-I2C scan meets on one bus:
\*   "none"     no i2c-N entry of an NVIDIA adapter (or its name is unreadable)
\*   "noprobe"  the DDC address does not answer (_probe_ddc is False)
\*   "novcp"    the probe answers, the VCP-Get of 0x10 fails or is invalid
\*   "openfail" the probe answers, then opening the node in _vcp_get fails
\*   "ok"       probe and VCP-Get answer
RawStates == {"none", "noprobe", "novcp", "openfail", "ok"}

\* the OSError of _open_bus in _vcp_get (outside its try) ends the loop of
\* detect_unmapped_monitors in the outer except: entries sorted after the
\* failing one are not scanned (bus numbers below 10 sort numerically)
ScanAborted(known_buses, buses, c) ==
  \E d \in DOMAIN buses :
     d < c /\ buses[d] = "openfail" /\ Str(d) \notin known_buses

\* RawDDCIMonitorControl.detect_unmapped_monitors: one record, keyed by the
\* bus number, per answering bus that is not in known_buses (model, the EDID
\* product name, is read by no registry code and left empty)
RawDetect(known_buses, buses) ==
  [id \in {Str(b) : b \in {c \in DOMAIN buses :
                             /\ buses[c] = "ok"
                             /\ Str(c) \notin known_buses
                             /\ ~ScanAborted(known_buses, buses, c)}} |->
     [backend |-> "raw_ddc", i2c_bus |-> id, model |-> <<>>,
      capabilities |-> StubCaps]]

\* ------------------------------------------------------------ linking
\* LinkMatch with the length filter off by one (len(part) > 2)
LinkMatch_ShortTokens(kde_label, ddc_model) ==
  LET parts == Split(Lower(ddc_model))
  IN \E p \in 1..Len(parts) :
       Len(parts[p]) > 2 /\ Contains(Lower(kde_label), parts[p])

\* any(part in kde_label for part in ddc_model.split(':') if len(part) > 3)
LinkMatch(kde_label, ddc_model) ==
  LET parts == Split(Lower(ddc_model))
  IN \E p \in 1..Len(parts) :
       Len(parts[p]) > 3 /\ Contains(Lower(kde_label), parts[p])

\* index of the ddc record the inner loop breaks on, 0 when it runs to the end
FirstMatch(kde_label, ddc_monitors) ==
  LET hits == {j \in 1..Len(ddc_monitors) :
                 LinkMatch(kde_label, ddc_monitors[j].model)}
  IN IF hits = {} THEN 0 ELSE CHOOSE j \in hits : \A k \in hits : j <= k

\* the body of the outer loop for one KDE record
LinkKde(kde_info, ddc_monitors) ==
  LET j == FirstMatch(kde_info.model, ddc_monitors)
  IN IF j = 0 THEN kde_info
     ELSE [kde_info EXCEPT
             !.i2c_bus = ddc_monitors[j].i2c_bus,
             !.capabilities = IF ddc_monitors[j].capabilities.nonempty
                              THEN ddc_monitors[j].capabilities ELSE @]

\* "if not monitors": the ddc records keyed by display number, tagged ddc
DdcFallback(ddc_monitors) ==
  [id \in {ddc_monitors[j].display_num : j \in 1..Len(ddc_monitors)} |->
     LET j == CHOOSE k \in 1..Len(ddc_monitors) : ddc_monitors[k].display_num = id
     IN [backend |-> "ddc", i2c_bus |-> ddc_monitors[j].i2c_bus,
         model |-> ddc_monitors[j].model,
         capabilities |-> ddc_monitors[j].capabilities]]

\* known_buses collecting the ids of the records that carry a bus
KnownBuses_IdsAsBuses(ms) == {i \in DOMAIN ms : Truthy(ms[i].i2c_bus)}

\* {m.get('i2c_bus') for m in monitors.values() if m.get('i2c_bus')}
KnownBuses(ms) == {ms[id].i2c_bus : id \in {i \in DOMAIN ms : Truthy(ms[i].i2c_bus)}}

\* for mid, minfo in raw_monitors.items(): monitors[mid] = minfo
AddRaw(ms, raw_monitors) ==
  [id \in DOMAIN ms \cup DOMAIN raw_monitors |->
     IF id \in DOMAIN raw_monitors THEN raw_monitors[id] ELSE ms[id]]

\* the map before the raw-I2C scan: linked KDE records, or the ddc fallback
BaseMonitors(kde_monitors, ddc_monitors) ==
  IF DOMAIN kde_monitors # {}
  THEN [id \in DOMAIN kde_monitors |-> LinkKde(kde_monitors[id], ddc_monitors)]
  ELSE DdcFallback(ddc_monitors)

\* the map HybridMonitorControl.detect_monitors builds and returns
HybridBuild(kde_monitors, ddc_monitors, buses) ==
  LET base == BaseMonitors(kde_monitors, ddc_monitors)
  IN AddRaw(base, RawDetect(KnownBuses(base), buses))

\* ------------------------------------------------------------ hardware
\* one "Display N" block of `ddcutil detect --brief`
DdcRecords ==
  { [display_num |-> Str(d), i2c_bus |-> b, model |-> m, capabilities |-> c] :
      d \in DisplayNums, b \in {Str(x) : x \in Buses} \cup {None},
      m \in Models, c \in DdcCapsChoices }

\* a listing: display numbers ascending, one bus per display, capabilities
\* queried only for a display with a bus
DdcListings ==
  { s \in UNION {[1..n -> DdcRecords] : n \in 0..MaxDdc} :
      /\ \A i, j \in 1..Len(s) : i < j =>
            /\ s[i].display_num # s[j].display_num
            /\ Truthy(s[i].i2c_bus) => s[i].i2c_bus # s[j].i2c_bus
      /\ \A i \in 1..Len(s) :
            /\ s[i].display_num = Str(i)
            /\ ~Truthy(s[i].i2c_bus) => s[i].capabilities = EmptyCaps }

KdeListings == UNION {[D -> Labels] : D \in SUBSET KdeIndices}

\* no driver method has been called
NoCall == [driver |-> "none", method |-> "none", reply |-> "none", value |-> NoValue]

DrvInit == drvCall = NoCall /\ drvPhase = "idle" /\ drvRet = NoRet

SvcInit == kdeMax = 100 /\ kdeNative = 0 /\ kdePercent = {} /\ kdeRead = {}

\* the worker threads of the GUI controller and its main thread
Threads == {"main", "preview", "caps"}

ThreadsInit == inflight = [t \in Threads |-> None]

WireInit == frameFeature = 16 /\ frameValue = 0 /\ frame = <<>>

\* every display answers its property queries and none hangs on a DDC bus
\* the scan could reach
HealthyKde ==
  /\ kdeReply = [i \in DOMAIN kdeDisplays |-> "ok"]
  /\ kdeBus = [i \in DOMAIN kdeDisplays |-> None]

Init ==
  /\ kdeDisplays \in KdeListings
  /\ ddcDisplays \in DdcListings
  /\ rawBuses \in [Buses -> {"ok", "none"}]
  /\ HealthyKde
  /\ DrvInit /\ SvcInit /\ ThreadsInit /\ WireInit /\ ExtInit
  /\ kdeUp = TRUE
  /\ ddcTool = "ok"
  /\ monitors = NoMonitors
  /\ lastPass = "none"
  /\ prevPass = "none"
  /\ kdeSeen = NoMonitors
  /\ ddcSeen = <<>>
  /\ rawSeen = NoMonitors
  /\ lastOp = Idle
  /\ calls = <<>>
  /\ ret = NoRet

\* displays whose property queries fail and buses that fail the scan
InitFaults ==
  /\ kdeDisplays \in KdeListings
  /\ kdeReply \in [DOMAIN kdeDisplays -> KdeReplies]
  /\ kdeBus = [i \in DOMAIN kdeDisplays |-> None]
  /\ ddcDisplays \in DdcListings
  /\ rawBuses \in [Buses -> RawStates]
  /\ DrvInit /\ SvcInit /\ ThreadsInit /\ WireInit /\ ExtInit
  /\ kdeUp = TRUE
  /\ ddcTool = "ok"
  /\ monitors = NoMonitors
  /\ lastPass = "none"
  /\ prevPass = "none"
  /\ kdeSeen = NoMonitors
  /\ ddcSeen = <<>>
  /\ rawSeen = NoMonitors
  /\ lastOp = Idle
  /\ calls = <<>>
  /\ ret = NoRet

\* every display of the desktop service may hang on any I2C bus, no two on
\* the same one
InitPhys ==
  /\ kdeDisplays \in KdeListings
  /\ kdeReply = [i \in DOMAIN kdeDisplays |-> "ok"]
  /\ kdeBus \in [DOMAIN kdeDisplays -> {Str(b) : b \in Buses} \cup {None}]
  /\ \A i, j \in DOMAIN kdeDisplays :
        (i # j /\ kdeBus[i] # None) => kdeBus[i] # kdeBus[j]
  /\ ddcDisplays \in DdcListings
  /\ rawBuses \in [Buses -> {"ok", "none"}]
  /\ DrvInit /\ SvcInit /\ ThreadsInit /\ WireInit /\ ExtInit
  /\ kdeUp = TRUE
  /\ ddcTool = "ok"
  /\ monitors = NoMonitors
  /\ lastPass = "none"
  /\ prevPass = "none"
  /\ kdeSeen = NoMonitors
  /\ ddcSeen = <<>>
  /\ rawSeen = NoMonitors
  /\ lastOp = Idle
  /\ calls = <<>>
  /\ ret = NoRet

\* ------------------------------------------------------------ environment
\* the desktop service starts or stops
KdeToggle == kdeUp' = ~kdeUp /\ UNCHANGED <<hw, ddcTool, pass, disp, drv, svc, inflight, wire, ext>>

\* ddcutil starts to fail, is removed, or works again
DdcToolChange ==
  \E t \in {"ok", "fail", "missing"} :
     t # ddcTool /\ ddcTool' = t
     /\ UNCHANGED <<hw, kdeUp, pass, disp, drv, svc, inflight, wire, ext>>

\* ------------------------------------------------------------ detect_monitors
\* detect_monitors whose raw scan also skips the buses of the registry left
\* by the pass before
DetectMonitors_SkipKnown ==
  LET kde_raises   == kdeUp /\ KdeDetectRaises(kdeDisplays, kdeReply)
      kde_monitors == IF kdeUp /\ ~kde_raises
                      THEN KdeDetect(kdeDisplays, kdeReply) ELSE NoMonitors
  IN /\ lastOp = Idle
     /\ prevPass' = lastPass
     /\ kdeSeen' = kde_monitors
     /\ IF kde_raises \/ ddcTool = "missing"
        THEN /\ lastPass' = "raised"
             /\ ddcSeen' = <<>>
             /\ rawSeen' = NoMonitors
             /\ UNCHANGED monitors
        ELSE LET ddc_monitors == DdcDetect(ddcDisplays, ddcTool)
                 base == BaseMonitors(kde_monitors, ddc_monitors)
                 raw  == RawDetect(KnownBuses(base) \cup KnownBuses(monitors), rawBuses)
             IN /\ lastPass' = "returned"
                /\ ddcSeen' = ddc_monitors
                /\ rawSeen' = raw
                /\ monitors' = AddRaw(base, raw)
     /\ UNCHANGED <<hw, env, disp, drv, svc, inflight, wire, ext>>

\* HybridMonitorControl.detect_monitors.  With ddcutil not installed,
\* subprocess.run raises FileNotFoundError, which the except clause of
\* DDCIMonitorControl.detect_monitors does not name: the call ends there and
\* self.monitors keeps its value.  The same holds for the ValueError of the
\* KDE driver's detection.
DetectMonitors ==
  LET kde_raises   == kdeUp /\ KdeDetectRaises(kdeDisplays, kdeReply)
      kde_monitors == IF kdeUp /\ ~kde_raises
                      THEN KdeDetect(kdeDisplays, kdeReply) ELSE NoMonitors
  IN /\ lastOp = Idle
     /\ prevPass' = lastPass
     /\ kdeSeen' = kde_monitors
     /\ IF kde_raises \/ ddcTool = "missing"
        THEN /\ lastPass' = "raised"
             /\ ddcSeen' = <<>>
             /\ rawSeen' = NoMonitors
             /\ UNCHANGED monitors
        ELSE LET ddc_monitors == DdcDetect(ddcDisplays, ddcTool)
                 base == BaseMonitors(kde_monitors, ddc_monitors)
             IN /\ lastPass' = "returned"
                /\ ddcSeen' = ddc_monitors
                /\ rawSeen' = RawDetect(KnownBuses(base), rawBuses)
                /\ monitors' = HybridBuild(kde_monitors, ddc_monitors, rawBuses)
     /\ UNCHANGED <<hw, env, disp, drv, svc, inflight, wire, ext>>

\* ------------------------------------------------------------ dispatch
FeatureCodes == {"10", "12"}   \* brightness and one other VCP code (contrast)
Percents == {42}               \* the values a caller writes

\* every id a caller may pass: the ids any pass can produce
AllIds == {KdeId(i) : i \in KdeIndices} \cup {Str(n) : n \in DisplayNums \cup Buses}

\* one call of a backend driver method by the registry
Call(driver, method, target, code, value) ==
  [driver |-> driver, method |-> method, target |-> target,
   code |-> code, value |-> value]

RetNone      == [tag |-> "None",  val |-> 0, caps |-> EmptyCaps]
RetFalse     == [tag |-> "False", val |-> 0, caps |-> EmptyCaps]
RetTrue      == [tag |-> "True",  val |-> 0, caps |-> EmptyCaps]
RetRaise     == [tag |-> "raise", val |-> 0, caps |-> EmptyCaps]
RetInt(v)    == [tag |-> "int",   val |-> v, caps |-> EmptyCaps]
RetCaps(c)   == [tag |-> "caps",  val |-> 0, caps |-> c]

\* what a driver's get / set / capabilities method can hand back
GetOutcomes  == {RetNone, RetInt(50), RetRaise}
SetOutcomes  == {RetTrue, RetFalse, RetRaise}
CapsOutcomes == {RetCaps(EmptyCaps), RetCaps(FullCaps), RetRaise}

\* BrightnessRoute preferring the bus-level driver whenever a bus is linked
BrightnessRoute_PreferDdc(monitor, monitor_id, method, value) ==
  IF monitor.backend = "raw_ddc"
  THEN <<Call("raw_ddc", method, monitor.i2c_bus, NoCode, value)>>
  ELSE IF Truthy(monitor.i2c_bus)
  THEN <<Call("ddc", method, monitor.i2c_bus, NoCode, value)>>
  ELSE IF monitor.backend = "kde"
  THEN <<Call("kde", method, monitor_id, NoCode, value)>>
  ELSE <<>>

\* HybridMonitorControl.get_brightness / set_brightness, for a known record:
\* the driver call chosen, <<>> when there is none
BrightnessRoute(monitor, monitor_id, method, value) ==
  IF monitor.backend = "kde"
  THEN <<Call("kde", method, monitor_id, NoCode, value)>>
  ELSE IF monitor.backend = "raw_ddc"
  THEN <<Call("raw_ddc", method, monitor.i2c_bus, NoCode, value)>>
  ELSE IF Truthy(monitor.i2c_bus)
  THEN <<Call("ddc", method, monitor.i2c_bus, NoCode, value)>>
  ELSE <<>>

\* SetVcpRoute handing the monitor id, not its bus, to the bus-level driver
SetVcpRoute_IdAsBus(monitor, monitor_id, feature_code, value) ==
  IF feature_code = "10" /\ monitor.backend = "kde"
  THEN <<Call("kde", "set_brightness", monitor_id, NoCode, value)>>
  ELSE IF feature_code = "10" /\ monitor.backend = "raw_ddc"
  THEN <<Call("raw_ddc", "set_brightness", monitor.i2c_bus, NoCode, value)>>
  ELSE IF Truthy(monitor.i2c_bus) /\ monitor.backend # "raw_ddc"
  THEN <<Call("ddc", "set_vcp_value", monitor_id, feature_code, value)>>
  ELSE <<>>

\* HybridMonitorControl.set_vcp_value, for a known record
SetVcpRoute(monitor, monitor_id, feature_code, value) ==
  IF feature_code = "10" /\ monitor.backend = "kde"
  THEN <<Call("kde", "set_brightness", monitor_id, NoCode, value)>>
  ELSE IF feature_code = "10" /\ monitor.backend = "raw_ddc"
  THEN <<Call("raw_ddc", "set_brightness", monitor.i2c_bus, NoCode, value)>>
  ELSE IF Truthy(monitor.i2c_bus) /\ monitor.backend # "raw_ddc"
  THEN <<Call("ddc", "set_vcp_value", monitor.i2c_bus, feature_code, value)>>
  ELSE IF feature_code = "10" /\ monitor.backend = "kde"
  THEN <<Call("kde", "set_brightness", monitor_id, NoCode, value)>>
  ELSE <<>>

\* GetVcpRoute answering every code of a KDE record from the desktop driver
GetVcpRoute_KdeAnyCode(monitor, monitor_id, feature_code) ==
  IF monitor.backend = "kde"
  THEN <<Call("kde", "get_brightness", monitor_id, NoCode, NoValue)>>
  ELSE IF feature_code = "10" /\ monitor.backend = "raw_ddc"
  THEN <<Call("raw_ddc", "get_brightness", monitor.i2c_bus, NoCode, NoValue)>>
  ELSE IF Truthy(monitor.i2c_bus) /\ monitor.backend # "raw_ddc"
  THEN <<Call("ddc", "get_vcp_value", monitor.i2c_bus, feature_code, NoValue)>>
  ELSE <<>>

\* HybridMonitorControl.get_vcp_value, for a known record
GetVcpRoute(monitor, monitor_id, feature_code) ==
  IF feature_code = "10" /\ monitor.backend = "kde"
  THEN <<Call("kde", "get_brightness", monitor_id, NoCode, NoValue)>>
  ELSE IF feature_code = "10" /\ monitor.backend = "raw_ddc"
  THEN <<Call("raw_ddc", "get_brightness", monitor.i2c_bus, NoCode, NoValue)>>
  ELSE IF Truthy(monitor.i2c_bus) /\ monitor.backend # "raw_ddc"
  THEN <<Call("ddc", "get_vcp_value", monitor.i2c_bus, feature_code, NoValue)>>
  ELSE <<>>

\* CapsRoute leaving out raw_ddc records, as get_vcp_value / set_vcp_value do
CapsRoute_SkipRaw(monitor) ==
  IF Truthy(monitor.i2c_bus) /\ monitor.backend # "raw_ddc"
  THEN <<Call("ddc", "get_monitor_capabilities", monitor.i2c_bus, NoCode, NoValue)>>
  ELSE <<>>

\* HybridMonitorControl.get_monitor_capabilities, for a known record
CapsRoute(monitor) ==
  IF Truthy(monitor.i2c_bus)
  THEN <<Call("ddc", "get_monitor_capabilities", monitor.i2c_bus, NoCode, NoValue)>>
  ELSE <<>>

\* HybridMonitorControl.get_brightness: the driver calls it makes
GetBrightnessCalls(ms, monitor_id) ==
  IF monitor_id \notin DOMAIN ms THEN <<>>
  ELSE BrightnessRoute(ms[monitor_id], monitor_id, "get_brightness", NoValue)

\* set_brightness treating an id it does not know as a bus name
SetBrightnessCalls_UnknownAsBus(ms, monitor_id, value) ==
  IF monitor_id \notin DOMAIN ms
  THEN <<Call("ddc", "set_brightness", monitor_id, NoCode, value)>>
  ELSE BrightnessRoute(ms[monitor_id], monitor_id, "set_brightness", value)

\* HybridMonitorControl.set_brightness
SetBrightnessCalls(ms, monitor_id, value) ==
  IF monitor_id \notin DOMAIN ms THEN <<>>
  ELSE BrightnessRoute(ms[monitor_id], monitor_id, "set_brightness", value)

\* HybridMonitorControl.set_vcp_value
SetVcpCalls(ms, monitor_id, feature_code, value) ==
  IF monitor_id \notin DOMAIN ms THEN <<>>
  ELSE SetVcpRoute(ms[monitor_id], monitor_id, feature_code, value)

\* HybridMonitorControl.get_vcp_value
GetVcpCalls(ms, monitor_id, feature_code) ==
  IF monitor_id \notin DOMAIN ms THEN <<>>
  ELSE GetVcpRoute(ms[monitor_id], monitor_id, feature_code)

\* HybridMonitorControl.get_monitor_capabilities
CapsCalls(ms, monitor_id) ==
  IF monitor_id \notin DOMAIN ms THEN <<>> ELSE CapsRoute(ms[monitor_id])

\* what get_monitor_capabilities returns when it calls no driver: {} for an
\* unknown id, else the record's stored capabilities
CapsLocal(ms, monitor_id) ==
  IF monitor_id \notin DOMAIN ms THEN RetCaps(EmptyCaps)
  ELSE RetCaps(ms[monitor_id].capabilities)

\* DDCIMonitorControl.set_brightness / get_brightness are set_vcp_value /
\* get_vcp_value with feature code '10': the driver call as the method that
\* runs ddcutil receives it
DdcResolve(call) ==
  IF call.driver = "ddc" /\ call.method = "set_brightness"
  THEN Call("ddc", "set_vcp_value", call.target, "10", call.value)
  ELSE IF call.driver = "ddc" /\ call.method = "get_brightness"
  THEN Call("ddc", "get_vcp_value", call.target, "10", call.value)
  ELSE call

\* the calls of one operation, each as its driver carries it out
Resolved(route) == [k \in 1..Len(route) |-> DdcResolve(route[k])]

\* an operation that makes the calls `route` (at most one) and returns the
\* driver's answer, or `failure` when it makes none
Dispatch(op, id, code, value, route, outcomes, failure) ==
  /\ lastOp = Idle
  /\ lastOp' = [op |-> op, id |-> id, code |-> code, value |-> value]
  /\ calls' = route
  /\ IF route = <<>> THEN ret' = failure ELSE ret' \in outcomes
  /\ UNCHANGED <<hw, env, pass, drv, svc, inflight, wire, ext>>

GetBrightness ==
  \E id \in AllIds :
     Dispatch("get_brightness", id, NoCode, NoValue,
              GetBrightnessCalls(monitors, id), GetOutcomes, RetNone)

SetBrightness ==
  \E id \in AllIds, v \in Percents :
     Dispatch("set_brightness", id, NoCode, {v},
              SetBrightnessCalls(monitors, id, {v}), SetOutcomes, RetFalse)

SetVcpValue ==
  \E id \in AllIds, code \in FeatureCodes, v \in Percents :
     Dispatch("set_vcp_value", id, code, {v},
              SetVcpCalls(monitors, id, code, {v}), SetOutcomes, RetFalse)

GetVcpValue ==
  \E id \in AllIds, code \in FeatureCodes :
     Dispatch("get_vcp_value", id, code, NoValue,
              GetVcpCalls(monitors, id, code), GetOutcomes, RetNone)

GetMonitorCapabilities ==
  \E id \in AllIds :
     Dispatch("get_monitor_capabilities", id, NoCode, NoValue,
              CapsCalls(monitors, id), CapsOutcomes, CapsLocal(monitors, id))

\* the caller takes the result of the operation; the next call may start
OpReturn ==
  /\ lastOp # Idle
  /\ lastOp' = Idle
  /\ calls' = <<>>
  /\ ret' = NoRet
  /\ UNCHANGED <<hw, env, pass, drv, svc, inflight, wire, ext>>

\* ------------------------------------------------------------ GUI threads
\* BrightnessController shares one HybridMonitorControl between the main
\* thread (slots setMonitorValue / getMonitorValue, the refresh timer) and
\* the threads started by previewBrightness and detectMonitorCapabilities.
\* No lock is taken anywhere on the way to the drivers.

\* the buses on which the raw scan of a detection pass reads VCP 0x10
ScanBuses ==
  DOMAIN RawDetect(
    KnownBuses(BaseMonitors(
      IF kdeUp THEN KdeDetect(kdeDisplays, kdeReply) ELSE NoMonitors,
      DdcDetect(ddcDisplays, ddcTool))),
    rawBuses)

\* the driver calls of detect_unmapped_monitors inside a detection pass
ScanCalls ==
  {<<Call("raw_ddc", "detect_unmapped_monitors", b, NoCode, NoValue)>> : b \in ScanBuses}

\* the driver calls a thread can have the registry make
ThreadCalls(t) ==
  IF t = "main"
  THEN {SetVcpCalls(monitors, id, code, {v}) :
           id \in DOMAIN monitors, code \in FeatureCodes, v \in Percents}
       \cup {GetVcpCalls(monitors, id, code) :
           id \in DOMAIN monitors, code \in FeatureCodes}
       \cup ScanCalls
  ELSE IF t = "preview"
  THEN {SetVcpCalls(monitors, id, "10", {v}) : id \in DOMAIN monitors, v \in Percents}
       \cup ScanCalls
  ELSE {CapsCalls(monitors, id) : id \in DOMAIN monitors}

\* the I2C bus a driver call talks on: ddcutil --bus B and the raw-I2C
\* driver exchange DDC/CI frames with the monitor, qdbus does not
ExchangeBus(call) ==
  IF call.driver \in {"ddc", "raw_ddc"} THEN call.target ELSE None

\* a thread's operation reaches the driver and starts its exchange
ThreadBegin ==
  /\ \E t \in Threads :
        /\ inflight[t] = None
        /\ \E cs \in ThreadCalls(t) :
              /\ cs # <<>>
              /\ ExchangeBus(cs[1]) # None
              /\ inflight' = [inflight EXCEPT ![t] = ExchangeBus(cs[1])]
  /\ UNCHANGED <<hw, env, pass, disp, drv, svc, wire, ext>>

\* the exchange ends and the operation returns
ThreadEnd ==
  /\ \E t \in Threads :
        /\ inflight[t] # None
        /\ inflight' = [inflight EXCEPT ![t] = None]
  /\ UNCHANGED <<hw, env, pass, disp, drv, svc, wire, ext>>

\* ------------------------------------------------------------ backend drivers
\* how one subprocess.run of qdbus or ddcutil ends:
\*   "ok"       exit status 0, output as expected
\*   "garbage"  exit status 0, output that does not parse
\*   "nonzero"  non-zero exit status
\*   "missing"  the executable is not installed (FileNotFoundError)
\*   "hang"     the process never ends
ToolReplies == {"ok", "garbage", "nonzero", "missing", "hang"}

\* how one raw-I2C exchange ends:
\*   "ok"       the reply passes the validity test of _vcp_get
\*   "invalid"  a reply arrives that fails it
\*   "ioerror"  ioctl, write or read raises OSError
\*   "openfail" os.open of /dev/i2c-N raises OSError
I2cReplies == {"ok", "invalid", "ioerror", "openfail"}

Digits == <<"0", "1", "2", "3", "4", "5", "6", "7", "8", "9">>

\* str(n) of a non-negative integer, as a sequence of characters
RECURSIVE Dec(_)
Dec(n) == IF n < 10 THEN <<Digits[n + 1]>>
          ELSE Append(Dec(n \div 10), Digits[(n % 10) + 1])

IsDigits(t) ==
  /\ t # <<>>
  /\ \A i \in 1..Len(t) : \E d \in 1..10 : Digits[d] = t[i]

\* int(t) of a string of digits
RECURSIVE IntOf(_)
IntOf(t) ==
  IF t = <<>> THEN 0
  ELSE 10 * IntOf(SubSeq(t, 1, Len(t) - 1))
       + ((CHOOSE d \in 1..10 : Digits[d] = t[Len(t)]) - 1)

\* what the service prints when it has no number to give
GarbageText == <<"n", "/", "a">>

\* KDEScreenBrightness._get_property: the stripped output, {} for None.  The
\* run has timeout=5 and every exception, TimeoutExpired included, gives None.
KdeGetProperty(reply, stored) ==
  IF reply = "ok" THEN {Dec(stored)}
  ELSE IF reply = "garbage" THEN {GarbageText}
  ELSE {}

\* KdeToPercent rounding to the nearest percent
KdeToPercent_Round(native, max_val) == (native * 100 + max_val \div 2) \div max_val

\* int(int(brightness) * 100 / max_val)
KdeToPercent(native, max_val) == (native * 100) \div max_val

\* int(brightness_percent * max_val / 100)
KdeToNative(brightness_percent, max_val) == (brightness_percent * max_val) \div 100

\* KDEScreenBrightness.get_brightness; int() of text that is no number raises
\* ValueError and max_val = 0 raises ZeroDivisionError, neither is caught
KdeGetBrightness(known, max_val, reply, stored) ==
  IF ~known THEN RetNone
  ELSE LET brightness == KdeGetProperty(reply, stored)
       IN IF brightness = {} THEN RetNone
          ELSE LET t == CHOOSE x \in brightness : TRUE
               IN IF ~IsDigits(t) THEN RetRaise
                  ELSE IF max_val = 0 THEN RetRaise
                  ELSE RetInt(KdeToPercent(IntOf(t), max_val))

\* KDEScreenBrightness.set_brightness: the run (timeout=5) is inside
\* try / except Exception
KdeSetBrightness(known, reply) ==
  IF ~known THEN RetFalse
  ELSE IF reply \in {"ok", "garbage"} THEN RetTrue
  ELSE RetFalse

\* DDCIMonitorControl.get_vcp_value: only CalledProcessError is caught
DdcGetVcpValue(reply, cur) ==
  IF reply = "missing" THEN RetRaise
  ELSE IF reply = "ok" THEN RetInt(cur)
  ELSE RetNone

\* DDCIMonitorControl.set_vcp_value
DdcSetVcpValue(reply) ==
  IF reply = "missing" THEN RetRaise
  ELSE IF reply = "nonzero" THEN RetFalse
  ELSE RetTrue

\* the capabilities dict built from output without a Feature line
BareCaps == [nonempty |-> TRUE, features |-> {}]

\* DDCIMonitorControl.get_monitor_capabilities
DdcGetCapabilities(reply) ==
  IF reply = "missing" THEN RetRaise
  ELSE IF reply = "nonzero" THEN RetCaps(EmptyCaps)
  ELSE IF reply = "garbage" THEN RetCaps(BareCaps)
  ELSE RetCaps(FullCaps)

\* RawDDCIMonitorControl.get_brightness: _open_bus is called before the try
\* of _vcp_get
RawGetBrightness(reply, cur) ==
  IF reply = "openfail" THEN RetRaise
  ELSE IF reply = "ok" THEN RetInt(cur)
  ELSE RetNone

\* RawDDCIMonitorControl.set_brightness: _vcp_set reads no reply
RawSetBrightness(reply) ==
  IF reply = "openfail" THEN RetRaise
  ELSE IF reply = "ioerror" THEN RetFalse
  ELSE RetTrue

\* the run of ddcutil is given no timeout: a process that never ends is
\* waited for without bound.  The runs of qdbus have timeout=5.
Blocks(driver, reply) == driver = "ddc" /\ reply = "hang"

\* a driver method called by the registry: it returns `result`, or blocks
DriverCall(driver, method, reply, value, result) ==
  /\ drvPhase = "idle"
  /\ drvCall' = [driver |-> driver, method |-> method, reply |-> reply,
                 value |-> value]
  /\ IF Blocks(driver, reply)
     THEN drvPhase' = "blocked" /\ drvRet' = NoRet
     ELSE drvPhase' = "done" /\ drvRet' = result

\* brightness values a monitor may report
Readings == {0, 50}

KdeGetBrightnessCall ==
  /\ \E known \in BOOLEAN, reply \in ToolReplies :
        DriverCall("kde", "get_brightness", reply, NoValue,
                   KdeGetBrightness(known, kdeMax, reply, kdeNative))
  /\ UNCHANGED <<hw, env, pass, disp, svc, inflight, wire, ext>>

KdeSetBrightnessCall ==
  /\ \E known \in BOOLEAN, reply \in ToolReplies, v \in Percents :
        /\ DriverCall("kde", "set_brightness", reply, {v},
                      KdeSetBrightness(known, reply))
        /\ kdeNative' = IF KdeSetBrightness(known, reply) = RetTrue
                        THEN IntOf(Dec(KdeToNative(v, kdeMax)))
                        ELSE kdeNative
  /\ UNCHANGED <<hw, env, pass, disp, kdeMax, kdePercent, kdeRead, inflight, wire, ext>>

DdcGetVcpValueCall ==
  /\ \E reply \in ToolReplies, cur \in Readings :
        DriverCall("ddc", "get_vcp_value", reply, NoValue,
                   DdcGetVcpValue(reply, cur))
  /\ UNCHANGED <<hw, env, pass, disp, svc, inflight, wire, ext>>

DdcSetVcpValueCall ==
  /\ \E reply \in ToolReplies, v \in Percents :
        DriverCall("ddc", "set_vcp_value", reply, {v}, DdcSetVcpValue(reply))
  /\ UNCHANGED <<hw, env, pass, disp, svc, inflight, wire, ext>>

DdcGetCapabilitiesCall ==
  /\ \E reply \in ToolReplies :
        DriverCall("ddc", "get_monitor_capabilities", reply, NoValue,
                   DdcGetCapabilities(reply))
  /\ UNCHANGED <<hw, env, pass, disp, svc, inflight, wire, ext>>

RawGetBrightnessCall ==
  /\ \E reply \in I2cReplies, cur \in Readings :
        DriverCall("raw_ddc", "get_brightness", reply, NoValue,
                   RawGetBrightness(reply, cur))
  /\ UNCHANGED <<hw, env, pass, disp, svc, inflight, wire, ext>>

RawSetBrightnessCall ==
  /\ \E reply \in I2cReplies, v \in Percents :
        DriverCall("raw_ddc", "set_brightness", reply, {v},
                   RawSetBrightness(reply))
  /\ UNCHANGED <<hw, env, pass, disp, svc, inflight, wire, ext>>

\* the registry takes the result; the next driver call may start
DriverTaken ==
  /\ drvPhase = "done"
  /\ drvCall' = NoCall /\ drvPhase' = "idle" /\ drvRet' = NoRet
  /\ UNCHANGED <<hw, env, pass, disp, svc, inflight, wire, ext>>

\* the scales the desktop service may report for a display
DriverScales == {0, 100, 255, 10000}

\* no monitor attached: the drivers are called directly
NoHardware ==
  /\ kdeDisplays = <<>> /\ ddcDisplays = <<>>
  /\ rawBuses = [b \in Buses |-> "none"]
  /\ HealthyKde
  /\ kdeUp = TRUE /\ ddcTool = "ok"
  /\ monitors = NoMonitors /\ lastPass = "none" /\ prevPass = "none"
  /\ kdeSeen = NoMonitors /\ ddcSeen = <<>> /\ rawSeen = NoMonitors
  /\ lastOp = Idle /\ calls = <<>> /\ ret = NoRet

InitDrivers ==
  /\ NoHardware
  /\ DrvInit /\ ThreadsInit /\ WireInit /\ ExtInit
  /\ kdeMax \in DriverScales /\ kdeNative \in Readings
  /\ kdePercent = {} /\ kdeRead = {}

\* ------------------------------------------------------------ KDE round trip
MaxScale == 130   \* the scales 100..MaxScale are all tried

\* max_brightness values: two below 100, a dense range from 100, the 8-bit
\* scale, 1000, and the default 10000 of detect_monitors
Scales == {30, 50} \cup (100..MaxScale) \cup {255, 1000, 10000}

AllPercents == 0..100

InitRoundTrip ==
  /\ NoHardware
  /\ DrvInit /\ ThreadsInit /\ WireInit /\ ExtInit
  /\ kdeMax \in Scales /\ kdeNative = 0
  /\ kdePercent = {} /\ kdeRead = {}

\* KDEScreenBrightness.set_brightness on a known display of a service that
\* answers and stores the value it is sent (as decimal text)
ServiceSetBrightness ==
  /\ \E v \in AllPercents :
        /\ KdeSetBrightness(TRUE, "ok") = RetTrue
        /\ kdeNative' = IntOf(Dec(KdeToNative(v, kdeMax)))
        /\ kdePercent' = {v}
  /\ kdeRead' = {}
  /\ UNCHANGED <<hw, env, pass, disp, drv, kdeMax, inflight, wire, ext>>

\* KDEScreenBrightness.get_brightness on that display
ServiceGetBrightness ==
  /\ kdePercent # {}
  /\ LET r == KdeGetBrightness(TRUE, kdeMax, "ok", kdeNative)
     IN r.tag = "int" /\ kdeRead' = {r.val}
  /\ UNCHANGED <<hw, env, pass, disp, drv, kdeMax, kdeNative, kdePercent, inflight, wire, ext>>

\* ------------------------------------------------------------ raw-I2C frames
\* a ^ b on non-negative integers
RECURSIVE Xor(_, _)
Xor(a, b) ==
  IF a = 0 /\ b = 0 THEN 0
  ELSE (((a % 2) + (b % 2)) % 2) + 2 * Xor(a \div 2, b \div 2)

\* the request _vcp_get writes: 0x51, length 0x82, command 0x01, the
\* feature, and chk = 0x6E ^ 0x51 ^ length ^ cmd ^ feature
VcpGetFrame(feature) ==
  <<81, 130, 1, feature, Xor(Xor(Xor(Xor(110, 81), 130), 1), feature)>>

\* VcpSetFrame sending the value low byte first
VcpSetFrame_LittleEndian(feature, value) ==
  LET val_hi == (value \div 256) % 256
      val_lo == value % 256
  IN <<81, 132, 3, feature, val_lo, val_hi,
       Xor(Xor(Xor(Xor(Xor(Xor(110, 81), 132), 3), feature), val_hi), val_lo)>>

\* the request _vcp_set writes: 0x51, length 0x84, command 0x03, the
\* feature, (value >> 8) & 0xFF, value & 0xFF, and the XOR of 0x6E with them
VcpSetFrame(feature, value) ==
  LET val_hi == (value \div 256) % 256
      val_lo == value % 256
  IN <<81, 132, 3, feature, val_hi, val_lo,
       Xor(Xor(Xor(Xor(Xor(Xor(110, 81), 132), 3), feature), val_hi), val_lo)>>

MaxFrameValue == 8   \* the values 0..MaxFrameValue are all tried

FeatureBytes == 0..255

\* values to write: the small ones, and some around the byte boundaries
FrameValues == (0..MaxFrameValue) \cup {42, 100, 255, 256, 257, 4660, 32767, 32768, 65280, 65535}

InitFrames ==
  /\ NoHardware
  /\ DrvInit /\ SvcInit /\ ThreadsInit /\ ExtInit
  /\ frameFeature \in FeatureBytes
  /\ frameValue \in FrameValues
  /\ frame = <<>>

\* RawDDCIMonitorControl._vcp_get writes its request
VcpGet ==
  /\ frame' = VcpGetFrame(frameFeature)
  /\ UNCHANGED <<hw, env, pass, disp, drv, svc, inflight, frameFeature, frameValue, ext>>

\* RawDDCIMonitorControl._vcp_set writes its request
VcpSet ==
  /\ frame' = VcpSetFrame(frameFeature, frameValue)
  /\ UNCHANGED <<hw, env, pass, disp, drv, svc, inflight, frameFeature, frameValue, ext>>

\* ------------------------------------------------------------ capabilities text
MaxCapsLines == 4   \* the capabilities output has at most MaxCapsLines lines

Whitespace == {" "}
HexDigits  == {"0", "1", "2", "3", "4", "5", "6", "7", "8", "9",
               "A", "B", "C", "D", "E", "F", "a", "b", "c", "d", "e", "f"}

\* str.upper() on one character of a hexadecimal code
UpperChar(c) ==
  CASE c = "a" -> "A" [] c = "b" -> "B" [] c = "c" -> "C" [] c = "d" -> "D"
    [] c = "e" -> "E" [] c = "f" -> "F" [] OTHER -> c

\* str.upper()
Upper(s) == [i \in 1..Len(s) |-> UpperChar(s[i])]

\* str.strip()
Strip(s) ==
  LET ink == {i \in 1..Len(s) : s[i] \notin Whitespace}
  IN IF ink = {} THEN <<>>
     ELSE SubSeq(s, CHOOSE i \in ink : \A j \in ink : i <= j,
                    CHOOSE i \in ink : \A j \in ink : i >= j)

\* str.startswith(prefix)
StartsWith(s, prefix) ==
  Len(s) >= Len(prefix) /\ SubSeq(s, 1, Len(prefix)) = prefix

ModelWord   == <<"M", "o", "d", "e", "l", ":">>
MccsWord    == <<"M", "C", "C", "S", " ", "v", "e", "r", "s", "i", "o", "n", ":">>
FeatureWord == <<"F", "e", "a", "t", "u", "r", "e", ":">>
ValuesWord  == <<"V", "a", "l", "u", "e", "s", ":">>

\* line.split(':', 1)[1].strip(), for a line that holds a ':'
AfterColon(line) ==
  LET c == CHOOSE i \in 1..Len(line) :
             line[i] = ":" /\ \A j \in 1..(i - 1) : line[j] # ":"
  IN Strip(SubSeq(line, c + 1, Len(line)))

\* index of the last character of the run of characters of S that starts at
\* i, or i - 1 when s[i] is not in S
RECURSIVE RunEnd(_, _, _)
RunEnd(s, i, S) ==
  IF i <= Len(s) /\ s[i] \in S THEN RunEnd(s, i + 1, S) ELSE i - 1

\* Feature:\s*([0-9A-Fa-f]+)\s*\((.+?)\) matched from position p: {code}, or
\* {} when it does not match there
FeatureMatchAt(line, p) ==
  LET a == RunEnd(line, p + Len(FeatureWord), Whitespace) + 1
      b == RunEnd(line, a, HexDigits)
      c == RunEnd(line, b + 1, Whitespace) + 1
  IN IF /\ p + Len(FeatureWord) - 1 <= Len(line)
        /\ SubSeq(line, p, p + Len(FeatureWord) - 1) = FeatureWord
        /\ b >= a
        /\ c <= Len(line) /\ line[c] = "("
        /\ \E e \in (c + 2)..Len(line) : line[e] = ")"
     THEN {Upper(SubSeq(line, a, b))}
     ELSE {}

\* re.search of that pattern: group(1).upper() of the leftmost match
FeatureMatch(line) ==
  LET ps == {p \in 1..Len(line) : FeatureMatchAt(line, p) # {}}
  IN IF ps = {} THEN {}
     ELSE FeatureMatchAt(line, CHOOSE p \in ps : \A r \in ps : p <= r)

\* ([0-9A-Fa-f]+):\s*(.+) matched from position p
ValueMatchAt(line, p) ==
  LET b == RunEnd(line, p, HexDigits)
  IN IF b >= p /\ b + 2 <= Len(line) /\ line[b + 1] = ":"
     THEN {Upper(SubSeq(line, p, b))}
     ELSE {}

\* re.search of that pattern: group(1).upper() of the leftmost match
ValueMatch(line) ==
  LET ps == {p \in 1..Len(line) : ValueMatchAt(line, p) # {}}
  IN IF ps = {} THEN {}
     ELSE ValueMatchAt(line, CHOOSE p \in ps : \A r \in ps : p <= r)

\* capabilities['features'][feature_code] = {'name': ..., 'values': {}}
NewFeature(features, code) ==
  [f \in DOMAIN features \cup {code} |-> IF f = code THEN {} ELSE features[f]]

\* the lines `ddcutil capabilities` may print, as the loop meets them
CapsLineModel    == <<"M", "o", "d", "e", "l", ":", " ", "U", "2", "7", "2", "0", "Q">>
CapsLineMccs     == <<"M", "C", "C", "S", " ", "v", "e", "r", "s", "i", "o", "n", ":", " ", "2", ".", "1">>
CapsLineFeature1 == <<" ", " ", " ", "F", "e", "a", "t", "u", "r", "e", ":", " ", "1", "4", " ", "(", "P", "r", "e", "s", "e", "t", ")">>
CapsLineFeature2 == <<" ", " ", " ", "F", "e", "a", "t", "u", "r", "e", ":", " ", "6", "0", " ", "(", "I", "n", "p", "u", "t", ")">>
CapsLineBadFeature == <<" ", " ", " ", "F", "e", "a", "t", "u", "r", "e", ":", " ", "6", "2", " ", "V", "o", "l", "u", "m", "e">>
CapsLineBlank    == <<>>
CapsLineValues   == <<" ", " ", " ", " ", " ", " ", "V", "a", "l", "u", "e", "s", ":">>
CapsLineValue1   == <<" ", " ", " ", " ", " ", " ", " ", " ", " ", "0", "5", ":", " ", "6", "5", "0", "0", " ", "K">>
CapsLineValue2   == <<" ", " ", " ", " ", " ", " ", " ", " ", " ", "0", "f", ":", " ", "D", "P", "-", "1">>

CapsLineChoices ==
  {CapsLineModel, CapsLineMccs, CapsLineFeature1, CapsLineFeature2,
   CapsLineBadFeature, CapsLineBlank, CapsLineValues, CapsLineValue1,
   CapsLineValue2}

\* ddcutil has printed its output; the loop is about to read the first line
InitParse ==
  /\ NoHardware
  /\ DrvInit /\ SvcInit /\ ThreadsInit /\ WireInit
  /\ CurveInit /\ AutoInit /\ LoopInit
  /\ capsLines \in UNION {[1..n -> CapsLineChoices] : n \in 0..MaxCapsLines}
  /\ capsPos = 1 /\ current_feature = {}
  /\ parsed = NoCaps /\ attributed = {}

\* one iteration of the loop of DDCIMonitorControl.get_monitor_capabilities
ParseLine ==
  /\ capsPos <= Len(capsLines)
  /\ capsPos' = capsPos + 1
  /\ LET line == Strip(capsLines[capsPos])
     IN IF StartsWith(line, ModelWord)
        THEN /\ parsed' = [parsed EXCEPT !.model = AfterColon(line)]
             /\ UNCHANGED <<current_feature, attributed>>
        ELSE IF StartsWith(line, MccsWord)
        THEN /\ parsed' = [parsed EXCEPT !.mccs_version = AfterColon(line)]
             /\ UNCHANGED <<current_feature, attributed>>
        ELSE IF StartsWith(line, FeatureWord)
        THEN IF FeatureMatch(line) # {}
             THEN LET feature_code == CHOOSE c \in FeatureMatch(line) : TRUE
                  IN /\ current_feature' = {feature_code}
                     /\ parsed' = [parsed EXCEPT
                                     !.features = NewFeature(@, feature_code)]
                     /\ UNCHANGED attributed
             ELSE UNCHANGED <<current_feature, parsed, attributed>>
        ELSE IF current_feature # {} /\ line # <<>> /\ ~Contains(line, ValuesWord)
        THEN IF ValueMatch(line) # {}
             THEN LET f == CHOOSE c \in current_feature : TRUE
                  IN /\ parsed' = [parsed EXCEPT
                                     !.features[f] = @ \cup ValueMatch(line)]
                     /\ attributed' = attributed \cup {<<capsPos, f>>}
                     /\ UNCHANGED current_feature
             ELSE UNCHANGED <<current_feature, parsed, attributed>>
        ELSE UNCHANGED <<current_feature, parsed, attributed>>
  /\ UNCHANGED <<reg, capsLines, curve, auto, loop>>

\* ------------------------------------------------------------ floating point
\* Python floats are IEEE-754 binary64 numbers: every operation returns the
\* representable number nearest to the exact result, ties to the even
\* significand.  A significand has 53 bits, more than an integer of the
\* model holds, so natural numbers of any size are sequences of 14-bit limbs,
\* lowest first, without a leading zero limb (<<>> is 0).
Limb == 2 ^ 14

\* a without its leading zero limbs
Trim(a) ==
  LET nz == {i \in 1..Len(a) : a[i] # 0}
  IN IF nz = {} THEN <<>>
     ELSE SubSeq(a, 1, CHOOSE i \in nz : \A j \in nz : j <= i)

RECURSIVE NatOfInt(_)
NatOfInt(n) == IF n = 0 THEN <<>> ELSE <<n % Limb>> \o NatOfInt(n \div Limb)

RECURSIVE IntOfNat(_)
IntOfNat(a) == IF a = <<>> THEN 0 ELSE a[1] + Limb * IntOfNat(Tail(a))

Digit(a, i) == IF 1 <= i /\ i <= Len(a) THEN a[i] ELSE 0

\* the carry into limb i of a + b: some lower limb overflows and every limb
\* between passes the carry on
CarryIn(a, b, i) ==
  \E j \in 1..(i - 1) :
     /\ Digit(a, j) + Digit(b, j) >= Limb
     /\ \A k \in (j + 1)..(i - 1) : Digit(a, k) + Digit(b, k) = Limb - 1

NatAdd(a, b) ==
  Trim([i \in 1..((IF Len(a) > Len(b) THEN Len(a) ELSE Len(b)) + 1) |->
          (Digit(a, i) + Digit(b, i) + (IF CarryIn(a, b, i) THEN 1 ELSE 0)) % Limb])

\* the borrow from limb i of a - b
BorrowIn(a, b, i) ==
  \E j \in 1..(i - 1) :
     /\ Digit(a, j) < Digit(b, j)
     /\ \A k \in (j + 1)..(i - 1) : Digit(a, k) = Digit(b, k)

\* a - b for a >= b
NatSub(a, b) ==
  Trim([i \in 1..Len(a) |->
          (Digit(a, i) - Digit(b, i) - (IF BorrowIn(a, b, i) THEN 1 ELSE 0) + Limb) % Limb])

NatLess(a, b) ==
  \/ Len(a) < Len(b)
  \/ /\ Len(a) = Len(b)
     /\ \E i \in 1..Len(a) : a[i] < b[i] /\ \A j \in (i + 1)..Len(a) : a[j] = b[j]

ShiftLimbs(a, n) == IF a = <<>> THEN <<>> ELSE [i \in 1..n |-> 0] \o a

\* a * k for 0 <= k <= Limb: the low limbs of the products a[i] * k, plus
\* their high limbs one place up
NatMulSmall(a, k) ==
  NatAdd(Trim([i \in 1..Len(a) |-> (a[i] * k) % Limb]),
         ShiftLimbs(Trim([i \in 1..Len(a) |-> (a[i] * k) \div Limb]), 1))

\* the sum of the products a[i] * b[j] with i + j = k + 1, i at least from
RECURSIVE Column(_, _, _, _)
Column(a, b, k, from) ==
  IF from > Len(a) THEN 0
  ELSE a[from] * Digit(b, k + 1 - from) + Column(a, b, k, from + 1)

\* a * b, for a of at most 7 limbs (a column then stays below 2^31): the
\* three limbs of every column, each at its place
NatMul(a, b) ==
  LET cols == [k \in 1..(Len(a) + Len(b)) |-> Column(a, b, k, 1)]
  IN NatAdd(NatAdd(Trim([k \in DOMAIN cols |-> cols[k] % Limb]),
                   ShiftLimbs(Trim([k \in DOMAIN cols |-> (cols[k] \div Limb) % Limb]), 1)),
            ShiftLimbs(Trim([k \in DOMAIN cols |-> cols[k] \div (Limb * Limb)]), 2))

\* a * 2^k and a div 2^k
NatShl(a, k) == ShiftLimbs(NatMulSmall(a, 2 ^ (k % 14)), k \div 14)

NatShr(a, k) ==
  LET b == IF k \div 14 >= Len(a) THEN <<>> ELSE SubSeq(a, (k \div 14) + 1, Len(a))
      d == 2 ^ (k % 14)
  IN Trim([i \in 1..Len(b) |-> (b[i] \div d) + (Digit(b, i + 1) % d) * (Limb \div d)])

\* the number of binary digits of a
BitLen(a) ==
  IF a = <<>> THEN 0
  ELSE 14 * (Len(a) - 1)
       + (CHOOSE n \in 1..14 : 2 ^ (n - 1) <= a[Len(a)] /\ a[Len(a)] < 2 ^ n)

NatOdd(a) == a # <<>> /\ a[1] % 2 = 1

\* the limb d with d * b <= r < (d + 1) * b, for r < b * Limb: the quotient
\* of the leading 30 binary digits of r by the digits of b above the same
\* position is at most 2 below and at most 6 above it
QuotLimb(r, b) ==
  LET s   == IF BitLen(r) > 30 THEN BitLen(r) - 30 ELSE 0
      est == IntOfNat(NatShr(r, s)) \div IntOfNat(NatShr(b, s))
  IN IF NatLess(r, b) THEN 0
     ELSE CHOOSE d \in (est - 6)..(est + 2) :
            /\ 0 <= d /\ d < Limb
            /\ ~NatLess(r, NatMulSmall(b, d))
            /\ NatLess(r, NatMulSmall(b, d + 1))

\* long division: quotient and remainder of the number made of the limbs i
\* and higher of a, by b (fewer limbs than b has make a number below b)
RECURSIVE DivFrom(_, _, _)
DivFrom(a, b, i) ==
  IF Len(a) - i + 1 < Len(b)
  THEN [quot |-> <<>>, rem |-> IF i > Len(a) THEN <<>> ELSE Trim(SubSeq(a, i, Len(a)))]
  ELSE LET high == DivFrom(a, b, i + 1)
           r    == Trim(<<a[i]>> \o high.rem)
           d    == QuotLimb(r, b)
       IN [quot |-> Trim(<<d>> \o high.quot),
           rem  |-> NatSub(r, NatMulSmall(b, d))]

NatDivMod(a, b) == DivFrom(a, b, 1)

\* a float is (-1)^neg * man * 2^exp with man of exactly Precision binary
\* digits, or zero (values of the model stay far from overflow and underflow)
Precision == 53

FZero == [neg |-> FALSE, man |-> <<>>, exp |-> 0]

\* the float nearest to (-1)^neg * (n + f) * 2^e, where 0 <= f < 1 and
\* sticky tells that f > 0 (then n has more than Precision digits)
Round(neg, n, e, sticky) ==
  IF n = <<>> THEN FZero
  ELSE IF BitLen(n) <= Precision
  THEN [neg |-> neg, man |-> NatShl(n, Precision - BitLen(n)),
        exp |-> e - (Precision - BitLen(n))]
  ELSE LET k    == BitLen(n) - Precision
           q    == NatShr(n, k)
           r    == NatSub(n, NatShl(q, k))
           half == NatShl(<<1>>, k - 1)
           up   == NatLess(half, r) \/ (r = half /\ (sticky \/ NatOdd(q)))
           q2   == IF up THEN NatAdd(q, <<1>>) ELSE q
       IN IF BitLen(q2) > Precision
          THEN [neg |-> neg, man |-> NatShr(q2, 1), exp |-> e + k + 1]
          ELSE [neg |-> neg, man |-> q2, exp |-> e + k]

\* float(n) of an integer
FromInt(n) == Round(n < 0, NatOfInt(IF n < 0 THEN -n ELSE n), 0, FALSE)

FNeg(x) == IF x = FZero THEN FZero ELSE [x EXCEPT !.neg = ~x.neg]

\* x + y
FAdd(x, y) ==
  IF x = FZero THEN y
  ELSE IF y = FZero THEN x
  ELSE LET e == IF x.exp < y.exp THEN x.exp ELSE y.exp
           a == NatShl(x.man, x.exp - e)
           b == NatShl(y.man, y.exp - e)
       IN IF x.neg = y.neg THEN Round(x.neg, NatAdd(a, b), e, FALSE)
          ELSE IF a = b THEN FZero
          ELSE IF NatLess(a, b) THEN Round(y.neg, NatSub(b, a), e, FALSE)
          ELSE Round(x.neg, NatSub(a, b), e, FALSE)

\* x - y
FSub(x, y) == FAdd(x, FNeg(y))

\* x * y
FMul(x, y) ==
  IF x = FZero \/ y = FZero THEN FZero
  ELSE Round(x.neg # y.neg, NatMul(x.man, y.man), x.exp + y.exp, FALSE)

\* x / y for y # 0
FDiv(x, y) ==
  IF x = FZero THEN FZero
  ELSE LET d == NatDivMod(NatShl(x.man, Precision + 3), y.man)
       IN Round(x.neg # y.neg, d.quot, x.exp - y.exp - (Precision + 3), d.rem # <<>>)

\* x < y and x <= y
FLess(x, y) == FSub(x, y).neg

FLessEq(x, y) == ~FLess(y, x)

\* int(x): truncation towards zero (|x| < 2^30)
FToInt(x) ==
  IF x = FZero THEN 0
  ELSE LET m == IF x.exp >= 0 THEN NatShl(x.man, x.exp) ELSE NatShr(x.man, -x.exp)
       IN IF x.neg THEN -IntOfNat(m) ELSE IntOfNat(m)

\* the float a decimal literal or a JSON number num/den denotes: the float
\* nearest to the exact quotient (num and den are exact as floats)
Lit(num, den) == FDiv(FromInt(num), FromInt(den))

\* ------------------------------------------------------------ brightness curve
\* the numbers calculate_brightness computes with
FMinus6 == FromInt(-6)
F0      == FromInt(0)
F6      == FromInt(6)
F12     == FromInt(12)
F15     == FromInt(15)
F25     == FromInt(25)
F40     == FromInt(40)
F0_3    == Lit(3, 10)
F0_4    == Lit(4, 10)
F0_7    == Lit(7, 10)

\* CalculateBrightness whose last segment has no upper end
CalculateBrightness_NoCap(e, min_b, max_b, scaling) ==
  IF ~scaling
  THEN IF FLessEq(e, FMinus6) THEN min_b
       ELSE IF FLessEq(e, F6)
       THEN FAdd(min_b, FMul(FDiv(FAdd(e, F6), F12), FSub(max_b, min_b)))
       ELSE max_b
  ELSE IF FLessEq(e, FMinus6) THEN min_b
  ELSE IF FLessEq(e, F0)
  THEN FAdd(min_b, FMul(FMul(F0_3, FSub(max_b, min_b)), FDiv(FAdd(e, F6), F6)))
  ELSE IF FLessEq(e, F15)
  THEN FAdd(min_b, FMul(FAdd(F0_3, FMul(F0_4, FDiv(e, F15))), FSub(max_b, min_b)))
  ELSE FAdd(min_b, FMul(FAdd(F0_7, FMul(F0_3, FDiv(FSub(e, F15), F25))),
                        FSub(max_b, min_b)))

\* calculate_brightness from the elevation on: the value it returns
CalculateBrightness(e, min_b, max_b, scaling) ==
  IF ~scaling
  THEN IF FLessEq(e, FMinus6) THEN min_b
       ELSE IF FLessEq(e, F6)
       THEN FAdd(min_b, FMul(FDiv(FAdd(e, F6), F12), FSub(max_b, min_b)))
       ELSE max_b
  ELSE IF FLessEq(e, FMinus6) THEN min_b
  ELSE IF FLessEq(e, F0)
  THEN FAdd(min_b, FMul(FMul(F0_3, FSub(max_b, min_b)), FDiv(FAdd(e, F6), F6)))
  ELSE IF FLessEq(e, F15)
  THEN FAdd(min_b, FMul(FAdd(F0_3, FMul(F0_4, FDiv(e, F15))), FSub(max_b, min_b)))
  ELSE IF FLessEq(e, F40)
  THEN FAdd(min_b, FMul(FAdd(F0_7, FMul(F0_3, FDiv(FSub(e, F15), F25))),
                        FSub(max_b, min_b)))
  ELSE max_b

\* the limits a configuration may hold: percent / 100, as the settings
\* windows write them
LimitPercents == {0, 10, 30, 45, 90, 100}
Limits == {Lit(p, 100) : p \in LimitPercents}

\* solar elevations in degrees: whole ones on, between and beyond the ends
\* of the segments, and 39.5
Elevations ==
  {FromInt(n) : n \in {-90, -7, -6, -3, 0, 3, 6, 7, 15, 27, 40, 41, 90}}
    \cup {Lit(79, 2)}

\* a configuration with min_brightness <= max_brightness is loaded
InitCurve ==
  /\ NoHardware
  /\ DrvInit /\ SvcInit /\ ThreadsInit /\ WireInit /\ ParseInit /\ AutoInit
  /\ LoopInit
  /\ min_brightness \in Limits
  /\ max_brightness \in Limits
  /\ FLessEq(min_brightness, max_brightness)
  /\ use_scaling \in BOOLEAN
  /\ elevation = {} /\ calculated = {}

\* calculate_brightness at some position of the sun
Calculate ==
  /\ \E e \in Elevations :
        /\ elevation' = {e}
        /\ calculated' = {CalculateBrightness(e, min_brightness, max_brightness,
                                              use_scaling)}
  /\ UNCHANGED <<reg, parse, auto, loop, min_brightness, max_brightness, use_scaling>>

\* ------------------------------------------------------------ brightness service
F100 == FromInt(100)

\* the brightness values set_brightness is handed (calculate_brightness
\* results and fullscreen_brightness) and the monitor offsets of the config
Levels  == {Lit(95, 100), Lit(1, 1)}
Offsets == {0, 10}

\* int(brightness * 100) of each level
IntPercent == [brightness \in Levels |-> FToInt(FMul(brightness, F100))]

\* max(0, min(100, int(brightness * 100) + offset))
BrightnessPercent(brightness, offset) ==
  LET brightness_percent == IntPercent[brightness] + offset
  IN IF brightness_percent > 100 THEN 100
     ELSE IF brightness_percent < 0 THEN 0
     ELSE brightness_percent

\* display.startswith('kde_')
StartsWithKde(display) == \E i \in 0..9 : display = KdeId(i)

\* a monitor answers DDC/CI on /dev/i2c-<bus>
MonitorOnBus(bus) ==
  \/ \E c \in Buses : Str(c) = bus /\ rawBuses[c] = "ok"
  \/ \E j \in 1..Len(ddcDisplays) : ddcDisplays[j].i2c_bus = bus

\* the desktop-service display a kde_<idx> id names now, {} when there is none
PanelOf(id) == {kdeDisplays[i] : i \in {k \in DOMAIN kdeDisplays : KdeId(k) = id}}

\* one run of `ddcutil --bus <bus> <verb> <code> ...` by the service
ToolCall(bus, verb, code) == [bus |-> bus, verb |-> verb, code |-> code]

\* how a driver call of the registry can be answered by the hardware
RepliesFor(call) ==
  IF call.driver = "kde"
  THEN IF PanelOf(call.target) # {} THEN {"ok", "timeout"} ELSE {"timeout"}
  ELSE IF call.driver = "raw_ddc"
  THEN IF MonitorOnBus(call.target) THEN {"ok", "ioerror", "openfail"}
       ELSE {"ioerror", "openfail"}
  ELSE IF MonitorOnBus(call.target) THEN {"ok", "nonzero"} ELSE {"nonzero"}

\* what the driver method returns under that answer; kde_ids are the ids
\* of the KDE driver's own map
DriverSet(call, reply, kde_ids) ==
  IF call.driver = "kde" THEN KdeSetBrightness(call.target \in kde_ids, reply)
  ELSE IF call.driver = "raw_ddc" THEN RawSetBrightness(reply)
  ELSE DdcSetVcpValue(reply)

\* the monitor a successful driver call has set
PanelWrite(call, percent) ==
  IF call.driver = "kde"
  THEN [l \in Labels |-> IF l \in PanelOf(call.target) THEN {percent} ELSE panelSet[l]]
  ELSE panelSet

BusWrite(bus, percent) ==
  [b \in DOMAIN busSet |-> IF b = bus THEN {percent} ELSE busSet[b]]

\* self._last_brightness[display] = brightness_percent
Remember(display, percent) ==
  [id \in DOMAIN last_brightness \cup {display} |->
     IF id = display THEN percent ELSE last_brightness[id]]

\* self._last_brightness.get(display) == brightness_percent
Unchanged(display, percent) ==
  display \in DOMAIN last_brightness /\ last_brightness[display] = percent

\* the fallback of set_brightness: ddcutil --bus <display> setvcp 10 <percent>;
\* a non-zero exit is CalledProcessError, which is caught
ToolFallback(display, percent) ==
  \E exit \in IF MonitorOnBus(display) THEN {"ok", "nonzero"} ELSE {"nonzero"} :
     /\ autoOp' = [op |-> "set_brightness", display |-> display,
                   percent |-> {percent}, skipped |-> FALSE,
                   tool |-> <<ToolCall(display, "setvcp", "10")>>]
     /\ IF exit = "ok"
        THEN /\ last_brightness' = Remember(display, percent)
             /\ busSet' = BusWrite(display, percent)
        ELSE UNCHANGED <<last_brightness, busSet>>
     /\ UNCHANGED panelSet

\* AutoBrightnessService.set_brightness from the test of _last_brightness on,
\* with the registry ms and the KDE driver's ids as the detection before it
\* left them
SetBrightnessOn(ms, kde_ids, display, brightness_percent) ==
  LET route == IF hybrid_control
               THEN SetBrightnessCalls(ms, display, {brightness_percent})
               ELSE <<>>
      done == [op |-> "set_brightness", display |-> display,
               percent |-> {brightness_percent}, skipped |-> FALSE, tool |-> <<>>]
  IN IF Unchanged(display, brightness_percent)
     THEN /\ autoOp' = [done EXCEPT !.skipped = TRUE]
          /\ UNCHANGED <<last_brightness, panelSet, busSet>>
     ELSE \E reply \in IF route = <<>> THEN {"none"} ELSE RepliesFor(route[1]) :
            LET success == route # <<>> /\ DriverSet(route[1], reply, kde_ids) = RetTrue
            IN IF success
               THEN /\ last_brightness' = Remember(display, brightness_percent)
                    /\ panelSet' = PanelWrite(route[1], brightness_percent)
                    /\ busSet' = IF route[1].driver = "kde" THEN busSet
                                 ELSE BusWrite(route[1].target, brightness_percent)
                    /\ autoOp' = done
               ELSE IF StartsWithKde(display)
               THEN /\ autoOp' = done
                    /\ UNCHANGED <<last_brightness, panelSet, busSet>>
               ELSE ToolFallback(display, brightness_percent)

\* one call of set_brightness by the service
AutoSetBrightness ==
  /\ \E display \in display_ids, brightness \in Levels, offset \in Offsets :
        \E brightness_percent \in {BrightnessPercent(brightness, offset)} :
           SetBrightnessOn(monitors, DOMAIN kdeSeen, display, brightness_percent)
  /\ UNCHANGED <<reg, parse, curve, loop, hybrid_control, display_ids>>

\* AutoBrightnessService.ensure_proper_contrast: getvcp 12, and setvcp 12 75
\* when the contrast read is below 50
EnsureProperContrast ==
  \E display \in display_ids, contrast \in {"low", "adequate", "unread"} :
     /\ autoOp' = [op |-> "ensure_proper_contrast", display |-> display,
                   percent |-> {}, skipped |-> FALSE,
                   tool |-> IF StartsWithKde(display) THEN <<>>
                            ELSE IF contrast = "low" /\ MonitorOnBus(display)
                            THEN <<ToolCall(display, "getvcp", "12"),
                                   ToolCall(display, "setvcp", "12")>>
                            ELSE <<ToolCall(display, "getvcp", "12")>>]
     /\ UNCHANGED <<reg, parse, curve, loop, hybrid_control, display_ids,
                    last_brightness, panelSet, busSet>>

\* the '/dev/i2c-' lines of `ddcutil detect --brief`
PlainListing ==
  {ddcDisplays[j].i2c_bus : j \in {k \in 1..Len(ddcDisplays) : Truthy(ddcDisplays[k].i2c_bus)}}

\* AutoBrightnessService.get_displays with no 'displays' in the config: the
\* ids of a detection pass of the registry when that is not empty, else the
\* bus numbers of the plain listing
DetectDisplays ==
  LET kde_monitors == KdeDetect(kdeDisplays, kdeReply)
      ddc_monitors == DdcDetect(ddcDisplays, ddcTool)
      found == HybridBuild(kde_monitors, ddc_monitors, rawBuses)
  IN IF hybrid_control
     THEN /\ prevPass' = lastPass
          /\ lastPass' = "returned"
          /\ kdeSeen' = kde_monitors
          /\ ddcSeen' = ddc_monitors
          /\ rawSeen' = RawDetect(KnownBuses(BaseMonitors(kde_monitors, ddc_monitors)),
                                  rawBuses)
          /\ monitors' = found
          /\ display_ids' = IF DOMAIN found # {} THEN DOMAIN found ELSE PlainListing
     ELSE /\ display_ids' = PlainListing
          /\ UNCHANGED pass

\* one call of get_displays by the service
GetDisplays ==
  /\ lastOp = Idle
  /\ DetectDisplays
  /\ autoOp' = [NoAutoOp EXCEPT !.op = "get_displays"]
  /\ UNCHANGED <<hw, env, disp, drv, svc, inflight, wire, parse, curve, loop,
                 hybrid_control, last_brightness, panelSet, busSet>>

\* the desktop service's displays, numbered from 1, each with a label of its
\* own
ServiceKde ==
  {k \in KdeListings :
     /\ \A i, j \in DOMAIN k : i # j => k[i] # k[j]
     /\ \A i \in DOMAIN k : i = 1 \/ (i - 1) \in DOMAIN k}

\* listings of monitors that all have a bus; the raw scan is for the buses
\* ddcutil does not list
ServiceDdc ==
  {s \in DdcListings : \A j \in 1..Len(s) :
      /\ Truthy(s[j].i2c_bus)
      /\ s[j].model = ModelOther
      /\ s[j].capabilities = EmptyCaps}

\* the desktop service numbers its displays anew (the session restarts, or a
\* display is swapped for another)
Renumber ==
  /\ \E k \in ServiceKde \ {kdeDisplays} :
        /\ DOMAIN k = DOMAIN kdeDisplays
        /\ kdeDisplays' = k
        /\ kdeReply' = [i \in DOMAIN k |-> "ok"]
        /\ kdeBus' = [i \in DOMAIN k |-> None]
  /\ autoOp' = NoAutoOp
  /\ UNCHANGED <<ddcDisplays, rawBuses, env, pass, disp, drv, svc, inflight, wire,
                 parse, curve, loop, hybrid_control, display_ids, last_brightness,
                 panelSet, busSet>>

InitService ==
  /\ kdeDisplays \in ServiceKde
  /\ HealthyKde
  /\ ddcDisplays \in ServiceDdc
  /\ rawBuses \in [Buses -> {"ok", "none"}]
  /\ \A c \in Buses : rawBuses[c] = "ok" =>
        \A j \in 1..Len(ddcDisplays) : ddcDisplays[j].i2c_bus # Str(c)
  /\ kdeDisplays # <<>> => ddcDisplays = <<>>
  /\ DrvInit /\ SvcInit /\ ThreadsInit /\ WireInit /\ ParseInit /\ CurveInit
  /\ LoopInit
  /\ kdeUp = TRUE /\ ddcTool = "ok"
  /\ monitors = NoMonitors /\ lastPass = "none" /\ prevPass = "none"
  /\ kdeSeen = NoMonitors /\ ddcSeen = <<>> /\ rawSeen = NoMonitors
  /\ lastOp = Idle /\ calls = <<>> /\ ret = NoRet
  /\ hybrid_control \in BOOLEAN
  /\ display_ids = {}
  /\ last_brightness = [id \in {} |-> 0]
  /\ panelSet = [l \in Labels |-> {}]
  /\ busSet = [b \in {Str(c) : c \in Buses} |-> {}]
  /\ autoOp = NoAutoOp

\* ------------------------------------------------------------ run loop
\* the keys of the config file that run looks at; latitude is TRUE when
\* latitude and longitude are both set
ConfigFiles ==
  [auto_brightness_enabled : BOOLEAN, fullscreen_brightness_enabled : BOOLEAN,
   latitude : BOOLEAN]

UpdateInterval == 60   \* config["update_interval"], in seconds
PollInterval   == 30   \* fullscreen_poll_interval

\* max(1, polls_per_update)
PollsPerUpdate ==
  IF UpdateInterval \div PollInterval < 1 THEN 1 ELSE UpdateInterval \div PollInterval

\* config.get("fullscreen_brightness", 1.0)
FullscreenBrightness == Lit(1, 1)

\* the settings window rewrites the config file
EditConfig ==
  /\ \E c \in ConfigFiles \ {config_file} : config_file' = c
  /\ UNCHANGED <<reg, parse, curve, auto, config, pc, polls, located, run_brightness,
                 iteration_count, outcome>>

\* a pass that calls neither set_brightness nor the tool
NoCallMade ==
  /\ autoOp' = NoAutoOp
  /\ UNCHANGED <<last_brightness, panelSet, busSet>>

\* "for display in displays: self.set_brightness(display, brightness)", for
\* the display lists of this specification, which hold at most one id
WriteAll(brightness) ==
  IF display_ids' = {} THEN NoCallMade
  ELSE \E display \in display_ids' :
         \E brightness_percent \in {BrightnessPercent(brightness, 0)} :
            SetBrightnessOn(monitors', DOMAIN kdeSeen', display, brightness_percent)

\* run from get_location to the head of the main loop, with self.config = cfg.
\* ensure_proper_contrast returns at once for the kde_ ids of this
\* specification.
Startup(cfg) ==
  /\ \E ip \in BOOLEAN :
        IF ~(cfg.latitude \/ ip)
        THEN /\ located' = FALSE /\ pc' = "stopped" /\ outcome' = "no_location"
             /\ UNCHANGED <<pass, display_ids>>
        ELSE /\ located' = TRUE
             /\ DetectDisplays
             /\ IF display_ids' = {}
                THEN pc' = "stopped" /\ outcome' = "no_displays"
                ELSE pc' = "loop" /\ outcome' = "started"
  /\ NoCallMade
  /\ UNCHANGED <<polls, run_brightness, iteration_count>>

\* run is called: the test of line 660 on the config loaded by __init__
RunStart ==
  /\ pc = "init"
  /\ IF config.auto_brightness_enabled
     THEN Startup(config)
     ELSE /\ pc' = "disabled" /\ outcome' = "disabled"
          /\ NoCallMade
          /\ UNCHANGED <<pass, display_ids, polls, located, run_brightness,
                         iteration_count>>
  /\ UNCHANGED <<hw, env, disp, drv, svc, inflight, wire, parse, curve,
                 hybrid_control, config_file, config>>

\* one pass of the loop that waits for auto_brightness_enabled
DisabledPoll ==
  /\ pc = "disabled"
  /\ config' = config_file
  /\ IF config_file.auto_brightness_enabled
     THEN Startup(config_file)
     ELSE /\ NoCallMade
          /\ UNCHANGED <<pass, display_ids, pc, polls, located, run_brightness,
                         iteration_count, outcome>>
  /\ UNCHANGED <<hw, env, disp, drv, svc, inflight, wire, parse, curve,
                 hybrid_control, config_file>>

\* iteration_count += 1 (the contrast check of every tenth pass returns at
\* once for kde_ ids)
CountIteration == iteration_count' = (iteration_count + 1) % 10

\* one pass of the polling loop: config reloaded, and with
\* fullscreen_brightness_enabled still set every display is written, to
\* fullscreen_brightness where a window is fullscreen on it
PollPass(brightness, left) ==
  /\ \E has_fs \in BOOLEAN :
        WriteAll(IF has_fs THEN FullscreenBrightness ELSE brightness)
  /\ IF left > 1
     THEN /\ pc' = "poll" /\ polls' = left - 1 /\ outcome' = "polled"
          /\ UNCHANGED iteration_count
     ELSE /\ pc' = "loop" /\ polls' = 0 /\ outcome' = "polled"
          /\ CountIteration

\* one iteration of the main loop, up to its first sleep
Iterate ==
  /\ pc = "loop"
  /\ config' = config_file
  /\ IF ~config_file.auto_brightness_enabled
     THEN /\ outcome' = "paused"
          /\ NoCallMade
          /\ UNCHANGED <<pass, display_ids, pc, polls, located, run_brightness,
                         iteration_count>>
     ELSE /\ DetectDisplays
          /\ \E ip \in BOOLEAN, sun \in BOOLEAN :
               LET new_located == config_file.latitude \/ ip
               IN IF located /\ ~new_located
                  THEN \* lat, lon = None, None; the format of line 735 raises
                       /\ located' = FALSE /\ outcome' = "location_raised"
                       /\ NoCallMade
                       /\ UNCHANGED <<pc, polls, run_brightness, iteration_count>>
                  ELSE /\ located' = new_located
                       /\ IF ~sun
                          THEN /\ outcome' = "no_sun_times"
                               /\ NoCallMade /\ CountIteration
                               /\ UNCHANGED <<pc, polls, run_brightness>>
                          ELSE IF ~config_file.latitude
                          THEN \* calculate_solar_elevation(None, None, now) raises
                               /\ outcome' = "calculate_raised"
                               /\ NoCallMade
                               /\ UNCHANGED <<pc, polls, run_brightness, iteration_count>>
                          ELSE \E brightness \in Levels :
                                 /\ run_brightness' = {brightness}
                                 /\ IF config_file.fullscreen_brightness_enabled
                                    THEN PollPass(brightness, PollsPerUpdate)
                                    ELSE /\ WriteAll(brightness)
                                         /\ outcome' = "updated"
                                         /\ CountIteration
                                         /\ UNCHANGED <<pc, polls>>
  /\ UNCHANGED <<hw, env, disp, drv, svc, inflight, wire, parse, curve,
                 hybrid_control, config_file>>

\* a later pass of the polling loop, after its sleep
Poll ==
  /\ pc = "poll"
  /\ config' = config_file
  /\ UNCHANGED <<pass, display_ids>>
  /\ IF ~config_file.fullscreen_brightness_enabled
     THEN /\ pc' = "loop" /\ polls' = 0 /\ outcome' = "polls_ended"
          /\ NoCallMade /\ CountIteration
     ELSE \E brightness \in run_brightness : PollPass(brightness, polls)
  /\ UNCHANGED <<hw, env, disp, drv, svc, inflight, wire, parse, curve,
                 hybrid_control, located, run_brightness, config_file>>

\* the service on a desktop with one display, or none, and no DDC monitor
InitRun ==
  /\ kdeDisplays \in {<<>>, <<LabelPanel>>}
  /\ HealthyKde
  /\ ddcDisplays = <<>>
  /\ rawBuses = [b \in Buses |-> "none"]
  /\ DrvInit /\ SvcInit /\ ThreadsInit /\ WireInit /\ ParseInit /\ CurveInit
  /\ AutoInit
  /\ kdeUp = TRUE /\ ddcTool = "ok"
  /\ monitors = NoMonitors /\ lastPass = "none" /\ prevPass = "none"
  /\ kdeSeen = NoMonitors /\ ddcSeen = <<>> /\ rawSeen = NoMonitors
  /\ lastOp = Idle /\ calls = <<>> /\ ret = NoRet
  /\ config_file \in ConfigFiles
  /\ config = config_file
  /\ pc = "init" /\ polls = 0 /\ located = FALSE
  /\ run_brightness = {} /\ iteration_count = 0 /\ outcome = "none"

\* ------------------------------------------------------------ specifications
\* detection under changing backend availability
Next == KdeToggle \/ DdcToolChange \/ DetectMonitors

Spec == Init /\ [][Next]_vars

\* detection followed by dispatch operations, backends available
NextDispatch ==
  \/ DetectMonitors
  \/ GetBrightness
  \/ SetBrightness
  \/ SetVcpValue
  \/ GetVcpValue
  \/ GetMonitorCapabilities
  \/ OpReturn

SpecDispatch == Init /\ [][NextDispatch]_vars

\* the backend driver methods under every reply of the tools and the bus
NextDrivers ==
  \/ KdeGetBrightnessCall
  \/ KdeSetBrightnessCall
  \/ DdcGetVcpValueCall
  \/ DdcSetVcpValueCall
  \/ DdcGetCapabilitiesCall
  \/ RawGetBrightnessCall
  \/ RawSetBrightnessCall
  \/ DriverTaken

SpecDrivers == InitDrivers /\ [][NextDrivers]_vars

\* the GUI controller: detection, then operations from its threads
NextThreads == DetectMonitors \/ ThreadBegin \/ ThreadEnd

SpecThreads == Init /\ [][NextThreads]_vars

\* detection over displays of known physical attachment
NextPhys == KdeToggle \/ DetectMonitors

SpecPhys == InitPhys /\ [][NextPhys]_vars

\* set_brightness then get_brightness through the desktop service
NextRoundTrip == ServiceSetBrightness \/ ServiceGetBrightness

SpecRoundTrip == InitRoundTrip /\ [][NextRoundTrip]_vars

\* the requests the raw-I2C driver writes
NextFrames == VcpGet \/ VcpSet

SpecFrames == InitFrames /\ [][NextFrames]_vars

\* one detection pass over displays and buses that may fail
NextFaults == DetectMonitors

SpecFaults == InitFaults /\ [][NextFaults]_vars

\* the same, where a driver method that can return does, and its result is taken
SpecDriversLive == SpecDrivers /\ WF_vars(DriverTaken)

\* the parsing loop over every capabilities text of up to MaxCapsLines lines
NextParse == ParseLine

SpecParse == InitParse /\ [][NextParse]_vars

\* calculate_brightness over configurations and elevations
NextCurve == Calculate

SpecCurve == InitCurve /\ [][NextCurve]_vars

\* the service's display list, brightness writes and contrast checks while
\* the desktop service renumbers its displays
NextService == GetDisplays \/ AutoSetBrightness \/ EnsureProperContrast \/ Renumber

SpecService == InitService /\ [][NextService]_vars

\* run, while the settings window edits the config file
NextRun == EditConfig \/ RunStart \/ DisabledPoll \/ Iterate \/ Poll

SpecRun == InitRun /\ [][NextRun]_vars

\* ------------------------------------------------------------ properties
\* the claim's match: some ':'-separated token of the lower-cased model, at
\* least 4 characters long, occurs in the lower-cased label
TokenMatch(label, model) ==
  \E t \in {Split(Lower(model))[p] : p \in 1..Len(Split(Lower(model)))} :
     Len(t) >= 4 /\ Contains(Lower(label), t)

\* the bus-level records, by position in the listing, that match a label
Hits(label) == {j \in 1..Len(ddcSeen) : TokenMatch(label, ddcSeen[j].model)}

FirstHit(label) == CHOOSE j \in Hits(label) : \A k \in Hits(label) : j <= k

\* C1 (as amended): after a pass that returned, every KDE record is in the
\* registry with backend = kde; with no matching bus-level record it has no
\* i2c_bus and its brightness-only capabilities; otherwise it has the i2c_bus
\* of the first matching record in listing order, and that record's
\* capabilities when they are non-empty, its own brightness-only ones when
\* they are empty.
C1_LinkFirstMatch ==
  lastPass = "returned" =>
    \A id \in DOMAIN kdeSeen :
       /\ id \in DOMAIN monitors
       /\ monitors[id].backend = "kde"
       /\ IF Hits(kdeSeen[id].model) = {}
          THEN /\ monitors[id].i2c_bus = None
               /\ monitors[id].capabilities = StubCaps
          ELSE LET d == ddcSeen[FirstHit(kdeSeen[id].model)]
               IN /\ monitors[id].i2c_bus = d.i2c_bus
                  /\ monitors[id].capabilities =
                       IF d.capabilities.nonempty THEN d.capabilities ELSE StubCaps

\* C1 as claimed: the linked KDE record always carries the matched record's
\* capabilities.
C1_LinkCopiesCapabilities ==
  lastPass = "returned" =>
    \A id \in DOMAIN kdeSeen :
       /\ id \in DOMAIN monitors
       /\ monitors[id].backend = "kde"
       /\ IF Hits(kdeSeen[id].model) = {}
          THEN /\ monitors[id].i2c_bus = None
               /\ monitors[id].capabilities = StubCaps
          ELSE LET d == ddcSeen[FirstHit(kdeSeen[id].model)]
               IN /\ monitors[id].i2c_bus = d.i2c_bus
                  /\ monitors[id].capabilities = d.capabilities

\* a KDE record matched by two bus-level records on different buses is linked
\* to the first, whose capabilities query had failed
C1_Witness ==
  /\ lastPass = "returned"
  /\ \E id \in DOMAIN kdeSeen :
        /\ Cardinality(Hits(kdeSeen[id].model)) = 2
        /\ Truthy(ddcSeen[1].i2c_bus) /\ Truthy(ddcSeen[2].i2c_bus)
        /\ ddcSeen[1].capabilities = EmptyCaps
        /\ ddcSeen[2].capabilities = FullCaps
        /\ monitors[id].i2c_bus = ddcSeen[1].i2c_bus
        /\ monitors[id].capabilities = StubCaps

\* C2: no two registry records carry the same non-empty i2c_bus.
C2_BusUnique ==
  \A a, b \in DOMAIN monitors :
     (a # b /\ Truthy(monitors[a].i2c_bus)) => monitors[a].i2c_bus # monitors[b].i2c_bus

\* the records a returned pass admitted to the registry before the raw scan
Admitted == IF DOMAIN kdeSeen # {} THEN Cardinality(DOMAIN kdeSeen) ELSE Len(ddcSeen)

\* C3: every record admitted in a pass (KDE records, or bus-level records in
\* fallback mode, plus every raw-I2C record) is its own registry entry.
C3_IdsUnique ==
  lastPass = "returned" =>
    Cardinality(DOMAIN monitors) = Admitted + Cardinality(DOMAIN rawSeen)

\* the ids of the records the backends reported in the last call
DetectedIds ==
  DOMAIN kdeSeen
    \cup (IF DOMAIN kdeSeen = {}
          THEN {ddcSeen[j].display_num : j \in 1..Len(ddcSeen)} ELSE {})
    \cup DOMAIN rawSeen

\* C4: after any detect_monitors call every id of the registry was detected
\* in that call (an id known before and not detected now is unknown), and
\* after a call that returned the registry holds every id it detected.
C4_FullReplace ==
  lastPass # "none" =>
    /\ DOMAIN monitors \subseteq DetectedIds
    /\ lastPass = "returned" => DetectedIds \subseteq DOMAIN monitors

\* the failure value of an operation
FailureOf(op) ==
  IF op \in {"get_brightness", "get_vcp_value"} THEN RetNone
  ELSE IF op \in {"set_brightness", "set_vcp_value"} THEN RetFalse
  ELSE RetCaps(EmptyCaps)

\* C5: an operation on an id that is not in the registry calls no backend
\* driver and returns its failure value (None, False, {}).
C5_UnknownId ==
  (lastOp # Idle /\ lastOp.id \notin DOMAIN monitors) =>
     calls = <<>> /\ ret = FailureOf(lastOp.op)

\* all five operations miss on ids the registry does not hold, next to ids it holds
C5_Witness ==
  /\ lastOp.op = "get_monitor_capabilities"
  /\ lastOp.id \notin DOMAIN monitors
  /\ DOMAIN monitors # {}
  /\ ret = RetCaps(EmptyCaps)

\* C6 (as amended): a brightness get or set on a registry record calls the
\* desktop driver when backend = kde (linked bus or not), the raw-I2C driver
\* with the record's i2c_bus when backend = raw_ddc, otherwise the bus-level
\* driver with the record's i2c_bus when it has one; a ddc record without an
\* i2c_bus gets no call and the failure value.
C6_BrightnessRouting ==
  (lastOp.op \in {"get_brightness", "set_brightness"} /\ lastOp.id \in DOMAIN monitors) =>
     LET m == monitors[lastOp.id]
         v == lastOp.value
     IN IF m.backend = "kde"
        THEN calls = <<Call("kde", lastOp.op, lastOp.id, NoCode, v)>>
        ELSE IF m.backend = "raw_ddc"
        THEN calls = <<Call("raw_ddc", lastOp.op, m.i2c_bus, NoCode, v)>>
        ELSE IF Truthy(m.i2c_bus)
        THEN calls = <<Call("ddc", lastOp.op, m.i2c_bus, NoCode, v)>>
        ELSE calls = <<>> /\ ret = FailureOf(lastOp.op)

\* C6 as claimed: every brightness get or set makes exactly one driver call.
C6_ExactlyOneCall ==
  (lastOp.op \in {"get_brightness", "set_brightness"} /\ lastOp.id \in DOMAIN monitors) =>
     LET m == monitors[lastOp.id]
         v == lastOp.value
     IN IF m.backend = "kde"
        THEN calls = <<Call("kde", lastOp.op, lastOp.id, NoCode, v)>>
        ELSE IF m.backend = "raw_ddc"
        THEN calls = <<Call("raw_ddc", lastOp.op, m.i2c_bus, NoCode, v)>>
        ELSE calls = <<Call("ddc", lastOp.op, m.i2c_bus, NoCode, v)>>

\* a brightness set on a ddc record that has no i2c_bus
C6_Witness ==
  /\ lastOp.op = "set_brightness"
  /\ lastOp.id \in DOMAIN monitors
  /\ monitors[lastOp.id].backend = "ddc"
  /\ ~Truthy(monitors[lastOp.id].i2c_bus)
  /\ calls = <<>>
  /\ ret = RetFalse

NonBrightnessVcp ==
  /\ lastOp.op \in {"get_vcp_value", "set_vcp_value"}
  /\ lastOp.code # "10"
  /\ lastOp.id \in DOMAIN monitors

\* C7 (as amended): get_vcp_value / set_vcp_value with a code other than '10'
\* on a record that carries an i2c_bus and is not raw_ddc makes one call, to
\* the bus-level driver, with that i2c_bus, the code and the value.
C7_NonBrightnessToDdc ==
  (NonBrightnessVcp /\ Truthy(monitors[lastOp.id].i2c_bus)
     /\ monitors[lastOp.id].backend # "raw_ddc") =>
     calls = <<Call("ddc", lastOp.op, monitors[lastOp.id].i2c_bus,
                    lastOp.code, lastOp.value)>>

\* C7 as claimed: the same for every record that carries an i2c_bus.
C7_EveryBusRecordToDdc ==
  (NonBrightnessVcp /\ Truthy(monitors[lastOp.id].i2c_bus)) =>
     calls = <<Call("ddc", lastOp.op, monitors[lastOp.id].i2c_bus,
                    lastOp.code, lastOp.value)>>

\* a contrast set on a KDE record linked to a bus goes to ddcutil on that bus
C7_Witness ==
  /\ NonBrightnessVcp
  /\ lastOp.op = "set_vcp_value"
  /\ monitors[lastOp.id].backend = "kde"
  /\ Truthy(monitors[lastOp.id].i2c_bus)
  /\ Len(calls) = 1
  /\ calls[1].driver = "ddc"

\* C8: get_vcp_value / set_vcp_value with a code other than '10' on a record
\* without an i2c_bus calls no driver and returns None / False.
C8_CapabilityGap ==
  (NonBrightnessVcp /\ ~Truthy(monitors[lastOp.id].i2c_bus)) =>
     calls = <<>> /\ ret = FailureOf(lastOp.op)

\* a contrast get on a desktop-service-only record
C8_Witness ==
  /\ NonBrightnessVcp
  /\ lastOp.op = "get_vcp_value"
  /\ monitors[lastOp.id].backend = "kde"
  /\ ~Truthy(monitors[lastOp.id].i2c_bus)
  /\ ret = RetNone

\* C9: on a raw_ddc record a non-brightness get / set calls no driver and
\* returns None / False, and get_monitor_capabilities calls no driver and
\* returns the brightness-only capabilities.
C9_RawBrightnessOnly ==
  (lastOp # Idle /\ lastOp.id \in DOMAIN monitors
     /\ monitors[lastOp.id].backend = "raw_ddc") =>
     /\ NonBrightnessVcp => (calls = <<>> /\ ret = FailureOf(lastOp.op))
     /\ lastOp.op = "get_monitor_capabilities" =>
          (calls = <<>> /\ ret = RetCaps(StubCaps))

\* C10: after a pass in which the desktop service gave no record, every
\* bus-level record is in the registry under its display number tagged ddc;
\* after one in which it gave a record, no registry record is tagged ddc;
\* every registry record has one backend out of kde, ddc, raw_ddc.
C10_Fallback ==
  lastPass = "returned" =>
    /\ DOMAIN kdeSeen = {} =>
         \A j \in 1..Len(ddcSeen) :
            /\ ddcSeen[j].display_num \in DOMAIN monitors
            /\ monitors[ddcSeen[j].display_num].backend = "ddc"
            /\ monitors[ddcSeen[j].display_num].i2c_bus = ddcSeen[j].i2c_bus
    /\ DOMAIN kdeSeen # {} =>
         \A id \in DOMAIN monitors : monitors[id].backend # "ddc"
    /\ \A id \in DOMAIN monitors : monitors[id].backend \in {"kde", "ddc", "raw_ddc"}

\* C11: every detect_monitors call returns, and when the ddcutil driver gave
\* no record (tool not installed or non-zero exit) the registry is exactly
\* the KDE records plus the raw-I2C records of the buses that answer.
C11_ToolUnavailable ==
  lastPass # "none" =>
    /\ lastPass = "returned"
    /\ ddcSeen = <<>> =>
         monitors = AddRaw(kdeSeen, RawDetect(KnownBuses(kdeSeen), rawBuses))

\* C12: no backend method raises to the registry: every driver method that
\* ended ended with a value (None, False, an empty map, or a result).
C12_NoRaise == drvPhase = "done" => drvRet.tag # "raise"

\* C14: every driver method called eventually returns, so every registry
\* operation, which waits for nothing else, eventually returns.
C14_EventuallyReturns == (drvPhase # "idle") ~> (drvPhase = "idle")

\* the non-empty i2c_bus values of the records in the map when the raw scan
\* is called
Claimed ==
  LET base == BaseMonitors(kdeSeen, ddcSeen)
  IN {b \in {Str(x) : x \in Buses} : \E id \in DOMAIN base : base[id].i2c_bus = b}

\* C13: a detect_monitors call does not abort, and every display that answers
\* correctly in it is in the registry: every KDE display whose queries all
\* answer, and every unclaimed bus whose probe and VCP-Get answer.
C13_Isolation ==
  lastPass # "none" =>
    /\ lastPass = "returned"
    /\ \A i \in DOMAIN kdeDisplays :
          (kdeUp /\ kdeReply[i] = "ok") => KdeId(i) \in DOMAIN monitors
    /\ \A b \in Buses :
          (rawBuses[b] = "ok" /\ Str(b) \notin Claimed) =>
             /\ Str(b) \in DOMAIN monitors
             /\ monitors[Str(b)].backend = "raw_ddc"

\* C16: the raw scan of a pass returns no record for a bus that a record of
\* the map already carries, nor for a bus whose probe or VCP-Get failed, and
\* every record it returns is in the registry with backend = raw_ddc and
\* i2c_bus equal to its bus.
C16_UnmappedRecovery ==
  lastPass = "returned" =>
    \A id \in DOMAIN rawSeen :
       /\ id \notin Claimed
       /\ \E b \in Buses : Str(b) = id /\ rawBuses[b] = "ok"
       /\ id \in DOMAIN monitors
       /\ monitors[id].backend = "raw_ddc"
       /\ monitors[id].i2c_bus = id

\* an answering bus is skipped because a record carries it, while another
\* bus yields a raw_ddc record
C16_Witness ==
  /\ lastPass = "returned"
  /\ \E b, c \in Buses :
        /\ rawBuses[b] = "ok" /\ Str(b) \in Claimed
        /\ Str(b) \notin DOMAIN rawSeen
        /\ Str(c) \in DOMAIN rawSeen
        /\ monitors[Str(c)].backend = "raw_ddc"

\* C15: at no time are two DDC/CI or raw-I2C exchanges in flight on the same
\* I2C bus.
C15_PerBusSerial ==
  \A t, u \in Threads :
     (t # u /\ inflight[t] # None) => inflight[t] # inflight[u]

\* the bus of the physical display a registry record stands for: the bus
\* the display hangs on for a KDE record, the record's i2c_bus otherwise
PhysBus(id) ==
  IF monitors[id].backend = "kde"
  THEN kdeBus[CHOOSE i \in DOMAIN kdeDisplays : KdeId(i) = id]
  ELSE monitors[id].i2c_bus

\* C17: after a detection pass no two registry records stand for the same
\* physical display.
C17_NoDoubleCount ==
  lastPass = "returned" =>
    \A a, b \in DOMAIN monitors :
       (a # b /\ Truthy(PhysBus(a))) => PhysBus(a) # PhysBus(b)

\* C18: set_brightness(p) writes the native value n = floor(p * max / 100)
\* and get_brightness returns r = floor(n * 100 / max); for max >= 100 a
\* get after a set of p returns r with p - 1 <= r <= p, and r = p when max
\* is a multiple of 100.
C18_RoundTrip ==
  \A p \in kdePercent :
     /\ kdeNative * 100 <= p * kdeMax
     /\ p * kdeMax < (kdeNative + 1) * 100
     /\ \A r \in kdeRead :
           /\ r * kdeMax <= kdeNative * 100
           /\ kdeNative * 100 < (r + 1) * kdeMax
           /\ kdeMax >= 100 =>
                /\ p - 1 <= r /\ r <= p
                /\ kdeMax % 100 = 0 => r = p

\* a set then a get on a scale that is no multiple of 100 loses one percent
C18_Witness ==
  /\ kdeMax >= 100 /\ kdeMax % 100 # 0
  /\ \E p \in kdePercent : p > 0 /\ kdeRead = {p - 1}

\* bit i of byte n
Bit(n, i) == (n \div (2 ^ i)) % 2

\* the number of bytes of a frame that have bit i set
RECURSIVE BitCount(_, _)
BitCount(bytes, i) ==
  IF bytes = <<>> THEN 0 ELSE Bit(Head(bytes), i) + BitCount(Tail(bytes), i)

\* C19: a VCP-Get request is the 5 bytes 0x51 0x82 0x01 f c, a VCP-Set
\* request the 7 bytes 0x51 0x84 0x03 f v_hi v_lo c with v big-endian, and
\* in both c makes the XOR of 0x6E with all bytes sent 0: every bit is set
\* in an even number of the bytes 0x6E, frame[1], ..., frame[n].
C19_FrameChecksum ==
  frame # <<>> =>
    /\ \A k \in 1..Len(frame) : frame[k] \in 0..255
    /\ \/ /\ Len(frame) = 5
          /\ SubSeq(frame, 1, 4) = <<81, 130, 1, frameFeature>>
       \/ /\ Len(frame) = 7
          /\ SubSeq(frame, 1, 4) = <<81, 132, 3, frameFeature>>
          /\ frame[5] * 256 + frame[6] = frameValue
    /\ \A i \in 0..7 : BitCount(<<110>> \o frame, i) % 2 = 0

\* a VCP-Set of a value above 255: both value bytes are used
C19_Witness ==
  /\ Len(frame) = 7
  /\ frameValue > 255
  /\ frame[5] > 0 /\ frame[6] > 0

C26_SameOperation ==
  /\ \A id \in AllIds, v \in Percents :
        /\ Resolved(SetBrightnessCalls(monitors, id, {v}))
             = Resolved(SetVcpCalls(monitors, id, "10", {v}))
        /\ Resolved(GetBrightnessCalls(monitors, id))
             = Resolved(GetVcpCalls(monitors, id, "10"))
  /\ (lastOp.op \in {"set_brightness", "set_vcp_value"} /\ lastOp.code \in {NoCode, "10"}) =>
        IF calls = <<>> THEN ret = RetFalse ELSE ret \in SetOutcomes
  /\ (lastOp.op \in {"get_brightness", "get_vcp_value"} /\ lastOp.code \in {NoCode, "10"}) =>
        IF calls = <<>> THEN ret = RetNone ELSE ret \in GetOutcomes

\* set_vcp_value with code '10' on a ddc record has called the bus-level
\* driver's set_vcp_value, where set_brightness calls its set_brightness
C26_Witness ==
  /\ lastOp.op = "set_vcp_value" /\ lastOp.code = "10"
  /\ lastOp.id \in DOMAIN monitors
  /\ monitors[lastOp.id].backend = "ddc"
  /\ Len(calls) = 1 /\ calls[1].method = "set_vcp_value"
  /\ \E v \in Percents :
        /\ lastOp.value = {v}
        /\ SetBrightnessCalls(monitors, lastOp.id, {v}) # calls
        /\ Resolved(SetBrightnessCalls(monitors, lastOp.id, {v})) = calls

\* C30: after a detection pass that returned, every record the bus-level
\* driver reported with an I2C bus has that bus carried by some registry
\* record.
C30_NoBusLost ==
  lastPass = "returned" =>
    \A j \in 1..Len(ddcSeen) :
       Truthy(ddcSeen[j].i2c_bus) =>
          \E id \in DOMAIN monitors : monitors[id].i2c_bus = ddcSeen[j].i2c_bus

\* the Feature lines before line k, and the line a value line k belongs to
FeatureLinesBefore(k) ==
  {j \in 1..(k - 1) : StartsWith(Strip(capsLines[j]), FeatureWord)}

LastFeatureLine(k) ==
  CHOOSE j \in FeatureLinesBefore(k) : \A i \in FeatureLinesBefore(k) : i <= j

\* C25: every value line stored under a feature has that feature's
\* well-formed Feature line as the most recent Feature line before it, with
\* no blank line between the two; a malformed Feature line creates no
\* feature; every well-formed Feature line read so far has its feature parsed.
C25_Attribution ==
  /\ \A at \in attributed :
        /\ FeatureLinesBefore(at[1]) # {}
        /\ FeatureMatch(Strip(capsLines[LastFeatureLine(at[1])])) = {at[2]}
        /\ \A b \in (LastFeatureLine(at[1]) + 1)..(at[1] - 1) :
              Strip(capsLines[b]) # <<>>
  /\ \A f \in DOMAIN parsed.features :
        \E j \in 1..(capsPos - 1) : FeatureMatch(Strip(capsLines[j])) = {f}
  /\ \A j \in 1..(capsPos - 1) :
        FeatureMatch(Strip(capsLines[j])) \subseteq DOMAIN parsed.features

\* C22: in the elevation-scaling mode calculate_brightness returns exactly
\* min_brightness for every elevation e <= -6 and exactly max_brightness for
\* every e > 40.
C22_Saturation ==
  \A e \in elevation, b \in calculated :
     use_scaling =>
        /\ FLessEq(e, FromInt(-6)) => b = min_brightness
        /\ FLess(FromInt(40), e) => b = max_brightness

\* at 41 degrees a configuration with distinct limits gives its upper one
C22_Witness ==
  /\ use_scaling
  /\ elevation = {FromInt(41)}
  /\ calculated = {max_brightness}
  /\ min_brightness # max_brightness

\* C23: in both modes the brightness returned for an elevation is at most
\* the brightness returned for any higher elevation, and every value
\* returned lies in [min_brightness, max_brightness].
C23_Monotone ==
  [][/\ \A e1 \in elevation, b1 \in calculated, e2 \in elevation', b2 \in calculated' :
           FLessEq(e1, e2) => FLessEq(b1, b2)
     /\ \A b2 \in calculated' :
           FLessEq(min_brightness, b2) /\ FLessEq(b2, max_brightness)]_vars

\* the percent the monitor a display id addresses now was last set to by the
\* service: through the registry's driver for an id of the registry, through
\* the tool on the bus of that number for any other id
LastOn(display) ==
  IF hybrid_control /\ display \in DOMAIN monitors
  THEN LET route == BrightnessRoute(monitors[display], display, "set_brightness", {})
       IN IF route = <<>> THEN {}
          ELSE IF route[1].driver = "kde"
          THEN UNION {panelSet[l] : l \in PanelOf(display)}
          ELSE IF route[1].target \in DOMAIN busSet THEN busSet[route[1].target]
          ELSE {}
  ELSE IF display \in DOMAIN busSet THEN busSet[display] ELSE {}

\* C28: the percent of a set_brightness is within 0..100; the write is
\* skipped exactly when the percent equals the one remembered for the id, and
\* a skipped write finds the monitor the id addresses now last set to that
\* percent.
C28_Suppression ==
  autoOp.op = "set_brightness" =>
    /\ \A p \in autoOp.percent : 0 <= p /\ p <= 100
    /\ autoOp.skipped => LastOn(autoOp.display) = autoOp.percent

\* the I2C bus of a display id: the i2c_bus of its registry record, the id
\* itself for a bus number of the plain listing
BusOfDisplay(display) ==
  IF hybrid_control /\ display \in DOMAIN monitors
  THEN monitors[display].i2c_bus ELSE display

\* C29: every run of the tool by set_brightness or ensure_proper_contrast
\* names the I2C bus of the display it is for, and none is for a kde_ id.
C29_ToolBus ==
  \A k \in 1..Len(autoOp.tool) :
     /\ ~StartsWithKde(autoOp.display)
     /\ autoOp.tool[k].bus = BusOfDisplay(autoOp.display)

\* C24: calculate_brightness does not raise: a pass of the main loop that has
\* sun times never ends in the exception of calculate_brightness, also when
\* the config holds no latitude / longitude, so it goes on to its writes.
C24_NoFailure == outcome # "calculate_raised"

\* C27: a brightness write is issued only while the last configuration load
\* read auto_brightness_enabled true, in the main loop and in the fullscreen
\* polling loop.
C27_DisabledNoWrite ==
  (autoOp.op = "set_brightness" /\ ~autoOp.skipped) => config.auto_brightness_enabled
====
